---- MODULE Spec2Model ----
(***************************************************************************)
(* WalkGIS data-source layer: the connection cache of dbService.ts         *)
(* (getDb and its helpers) and the switch flag of DataSourceContext.tsx.   *)
(*                                                                         *)
(* Execution is single threaded and cooperative.  One action is one run of *)
(* code between two points where getDb waits for the outside world (a      *)
(* fetch, a body read, the engine instantiation).  The continuations       *)
(* between such points touch only call-local state, so the await hops on   *)
(* already settled promises are folded into the action that precedes them. *)
(*                                                                         *)
(* A settled call is handed to its caller (Deliver) before any other task *)
(* runs: promise reactions are microtasks, network completions are tasks. *)
(* After delivery the call keeps only its address, its result and whether *)
(* it was served from the cache.                                          *)
(*                                                                         *)
(* URLs are sequences of tokens, so that template-literal concatenation    *)
(* and endsWith are computed and not looked up.  Time stamps of log        *)
(* entries are left out.                                                   *)
(***************************************************************************)
EXTENDS Integers, Sequences, FiniteSets, TLC

VARIABLES dbInstance, currentLoadedUrl, reloading, isSwitching, storage,
          sqljsModule, nextDb, calls, hist,
          reloadPending, lastWrites,
          conns, validatingId, swError, swOpen, reg, marketSources,
          ctxBaseUrl, isLoading, dbStatus, errorDetails, appCall, boot,
          view, mdStatus, mdPc, mdCall, reloads,
          kmlIn, kmlOut, imgIn, imgOut,
          tables, ops

vars == <<dbInstance, currentLoadedUrl, reloading, isSwitching, storage,
          sqljsModule, nextDb, calls, hist,
          reloadPending, lastWrites,
          conns, validatingId, swError, swOpen, reg, marketSources,
          ctxBaseUrl, isLoading, dbStatus, errorDetails, appCall, boot,
          view, mdStatus, mdPc, mdCall, reloads,
          kmlIn, kmlOut, imgIn, imgOut,
          tables, ops>>

dbVars == <<dbInstance, currentLoadedUrl, sqljsModule, nextDb, calls, hist>>

switchVars == <<reloading, isSwitching, storage, reloadPending, lastWrites>>

swVars == <<conns, validatingId, swError, swOpen, reg, marketSources>>

pageVars == <<ctxBaseUrl, isLoading, dbStatus, errorDetails, appCall, boot,
              view, mdStatus, mdPc, mdCall>>

appVars == <<pageVars, reloads>>

pureVars == <<kmlIn, kmlOut, imgIn, imgOut>>

facadeVars == <<tables, ops>>

restVars == <<pureVars, facadeVars>>

(* ------------------------------ bounds -------------------------------- *)

MaxCalls == 2

MaxBindCalls == 1

MaxConnects == 2

MaxAppCalls == 4

MaxReloads == 1

Calls == 1..MaxCalls

BindCalls == 1..MaxBindCalls

Connects == 1..MaxConnects

AppCalls == 1..MaxAppCalls

(* ----------------------------- constants ------------------------------ *)

MinDbSize == 100

WASM_CDNS ==
  << <<"cdn.jsdelivr.net", "sql-wasm.wasm">>,
     <<"unpkg.com", "sql-wasm.wasm">>,
     <<"cdnjs.cloudflare.com", "sql-wasm.wasm">> >>

DEFAULT_SOURCE == <<"wuulong.github.io", "/">>

OtherSource == <<"example.org", "/">>

Addrs == {DEFAULT_SOURCE, OtherSource}

SwitchInputs == {<<"example.org">>, <<"example.org", "/">>}

PayloadSizes == {99, 100, 101}

PayloadKinds == {"walkgis", "otherdb", "notdb"}

FailStatuses == {404, 503}

ModuleShapes == {"default", "none"}

AllModuleShapes == {"function", "default", "initSqlJs", "none"}

Outcomes == {"ok", "http", "net"}

RaceOutcomes == {"ok", "net"}

(* ------------------------------ values -------------------------------- *)

NoUrl == <<>>

NoDb == [id |-> 0, src |-> NoUrl, hasTable |-> FALSE]

NoError == [name |-> "", message |-> "", status |-> 0, url |-> NoUrl,
            trace |-> <<>>, diagnosticLogs |-> <<>>]

Entry(tag, url, msg, n) == [tag |-> tag, url |-> url, msg |-> msg, n |-> n]

NewError(message) == [NoError EXCEPT !.name = "Error", !.message = message]

IdleCall == [pc |-> "idle", baseUrl |-> NoUrl, cdn |-> 0, trace |-> <<>>,
             logs |-> <<>>, newDb |-> NoDb, result |-> NoDb,
             error |-> NoError, reqs |-> <<>>, hit |-> FALSE]

Settled(call) == call.pc \in {"resolved", "rejected"}

Busy == \E c \in DOMAIN calls : Settled(calls[c])

(* ------------------------- helpers of dbService ----------------------- *)

Log(logs, e) == Append(logs, e)

DbUrl(baseUrl) == baseUrl \o <<"walkgis.db">>

GetSqlJsFactory(module) ==
  IF module = "function" THEN "module"
  ELSE IF module = "default" THEN "module.default"
  ELSE IF module = "initSqlJs" THEN "module.initSqlJs"
  ELSE "null"

CacheHitNever(inst, loaded, baseUrl) == FALSE

CacheHitAnyUrl(inst, loaded, baseUrl) == inst # NoDb

CacheHit(inst, loaded, baseUrl) == inst # NoDb /\ loaded = baseUrl

CacheWriteInstOnly(old, newDb, baseUrl) == [inst |-> newDb, url |-> old.url]

CacheWriteFirstWins(old, newDb, baseUrl) ==
  IF old.inst # NoDb THEN old ELSE [inst |-> newDb, url |-> baseUrl]

CacheWrite(old, newDb, baseUrl) == [inst |-> newDb, url |-> baseUrl]

TooSmallInclusive(n) == n <= MinDbSize

TooSmall(n) == n < MinDbSize

Database(n, url, kind) == [id |-> n, src |-> url, hasTable |-> kind = "walkgis"]

ProbeAlwaysOk(db) == TRUE

ProbeOk(db) == db.hasTable

HttpErrorNoStatus(description, status, url) ==
  [NewError(description) EXCEPT !.url = url]

HttpError(description, status, url) ==
  [NewError(description) EXCEPT !.status = status, !.url = url]

AbortErrUnnamed == [NoError EXCEPT !.message = "Page transition in progress"]

AbortErr == [NoError EXCEPT !.name = "AbortError",
                            !.message = "Page transition in progress"]

FetchCatch(err, flag) == IF flag THEN AbortErr ELSE err

CatchLogsSilent(logs, err) == logs

CatchLogs(logs, err) ==
  Log(logs, Entry("critical", NoUrl,
                  IF err.message # "" THEN err.message
                  ELSE "Unknown initialization error", 0))

CatchErrorNoLogs(err, logs, baseUrl) == [err EXCEPT !.url = baseUrl]

CatchError(err, logs, baseUrl) ==
  [err EXCEPT !.diagnosticLogs = logs, !.url = baseUrl]

Rejected(call, err) ==
  LET l == CatchLogs(call.logs, err)
  IN  [call EXCEPT !.pc = "rejected", !.logs = l,
                   !.error = CatchError(err, l, call.baseUrl)]

(* fetchWasmWithFallback: the loop head for endpoint i, or the final throw *)
WasmAttempt(call, i) ==
  IF i <= Len(WASM_CDNS)
  THEN [call EXCEPT !.pc = "wasmFetch", !.cdn = i,
                    !.logs = Log(call.logs, Entry("wasmTry", WASM_CDNS[i], "", 0)),
                    !.reqs = Append(call.reqs, WASM_CDNS[i])]
  ELSE Rejected(call,
         [NewError("Failed to load SQL WASM engine from all available CDNs.")
            EXCEPT !.trace = call.trace])

WasmFailedSkip(call, msg) ==
  LET url == WASM_CDNS[call.cdn]
      c1  == [call EXCEPT
                !.logs = Log(call.logs, Entry("wasmFail", <<url[1]>>, msg, 0)),
                !.trace = Append(call.trace, [url |-> url, msg |-> msg])]
  IN  WasmAttempt(c1, call.cdn + 2)

WasmFailed(call, msg) ==
  LET url == WASM_CDNS[call.cdn]
      c1  == [call EXCEPT
                !.logs = Log(call.logs, Entry("wasmFail", <<url[1]>>, msg, 0)),
                !.trace = Append(call.trace, [url |-> url, msg |-> msg])]
  IN  WasmAttempt(c1, call.cdn + 1)

(* ------------------- SourceSwitcher and marketService ----------------- *)

UrlInputs ==
  { <<>>, <<" ">>, <<"example.org">>, <<" ", "https://", "example.org", "/", " ">> }

SourceIds == {"custom", "market-1"}

Undefined == [t |-> "undefined", n |-> 0]

EmptyList == [t |-> "list", n |-> 0]

SourcesValues ==
  { Undefined, EmptyList, [t |-> "list", n |-> 2], [t |-> "null", n |-> 0],
    [t |-> "string", n |-> 0], [t |-> "string", n |-> 3],
    [t |-> "number", n |-> 0], [t |-> "number", n |-> 5],
    [t |-> "object", n |-> 0] }

RegistryBodies ==
  { [t |-> "invalid", sources |-> Undefined],
    [t |-> "null", sources |-> Undefined],
    [t |-> "number", sources |-> Undefined] }
  \cup { [t |-> "object", sources |-> v] : v \in SourcesValues }

IdleReg == [pc |-> "idle", result |-> Undefined]

NoSwError == [message |-> "", url |-> NoUrl]

IdleConn == [pc |-> "idle", target |-> NoUrl, probe |-> NoUrl,
             timer |-> "none", elapsed |-> FALSE, valid |-> "none"]

(* JavaScript truthiness of a JSON value *)
Truthy(v) ==
  \/ v.t \in {"list", "object"}
  \/ v.t \in {"string", "number"} /\ v.n # 0

(* fetchMarketRegistry after the response body was parsed *)
RegistrySources(body) ==
  IF body.t \in {"invalid", "null"} THEN EmptyList
  ELSE LET sources == IF body.t = "object" THEN body.sources ELSE Undefined
       IN  IF Truthy(sources) THEN sources ELSE EmptyList

RECURSIVE TrimStart(_)
TrimStart(u) == IF u # <<>> /\ Head(u) = " " THEN TrimStart(Tail(u)) ELSE u

RECURSIVE TrimEnd(_)
TrimEnd(u) ==
  IF u # <<>> /\ u[Len(u)] = " " THEN TrimEnd(SubSeq(u, 1, Len(u) - 1)) ELSE u

Trim(u) == TrimEnd(TrimStart(u))

StartsWithHttp(u) == u # <<>> /\ u[1] \in {"https://", "http://"}

EndsWithSlash(u) == u # <<>> /\ u[Len(u)] \in {"/", "https://", "http://"}

(* handleConnect: the address that is probed and then committed *)
ConnectTarget(url) ==
  LET t1 == Trim(url)
      t2 == IF StartsWithHttp(t1) THEN t1 ELSE <<"https://">> \o t1
  IN  IF EndsWithSlash(t2) THEN t2 ELSE t2 \o <<"/">>

(* validateDataSource: the URL of the probe *)
ProbeUrl(url) ==
  LET target == IF EndsWithSlash(url) THEN url ELSE url \o <<"/">>
  IN  target \o <<"walkgis.db", "?t=">>

(* validateDataSource: the catch block *)
ValidateCatchNever(name) == "false"

ValidateCatchRethrow(name) == IF name = "AbortError" THEN "true" ELSE "rejected"

ValidateCatch(name) == IF name = "AbortError" THEN "true" ELSE "false"

(* handleConnect: what the result of the validation leads to *)
ConnectOutcomeAlways(valid) == "switch"

ConnectOutcome(valid) ==
  IF valid = "true" THEN "switch"
  ELSE IF valid = "false" THEN "error"
  ELSE IF valid = "AbortError" THEN "return"
  ELSE "unexpected"

(* ------------------------ AppContent and MapDetail --------------------- *)

NoDetails == [message |-> "", diagnosticLogs |-> <<>>, url |-> NoUrl]

(* the state of a freshly loaded page before any effect has run *)
PageStart ==
  /\ ctxBaseUrl = DEFAULT_SOURCE
  /\ isLoading = TRUE
  /\ dbStatus = "loading"
  /\ errorDetails = NoDetails
  /\ appCall = 0
  /\ boot = "init"
  /\ view = "home"
  /\ mdStatus = "unmounted"
  /\ mdPc = "off"
  /\ mdCall = 0

(* localStorage.removeItem *)
RemoveItemKeeps(value) == value

RemoveItem(value) == NoUrl

(* AppContent: the rejection handler of getDb(baseUrl) *)
ErrorDetails(err, url) ==
  [message |-> IF err.message # "" THEN err.message ELSE "Unknown connection error",
   diagnosticLogs |-> err.diagnosticLogs,
   url |-> IF err.url # NoUrl THEN err.url ELSE url]

(* what renderContent shows *)
Rendered ==
  IF isSwitching \/ reloading THEN "overlay"
  ELSE IF isLoading \/ dbStatus = "loading" THEN "spinner"
  ELSE IF dbStatus = "error" THEN "error"
  ELSE view

(* --------------------- the query facade of dbService ------------------- *)

MaxOps == 2

MaxFrameCalls == 3

Ops == 1..MaxOps

MinTermLength == 2

SearchLimit == 10

Feature(id, name) == [feature_id |-> id, name |-> name]

Relation(map, id, order) == [map_id |-> map, feature_id |-> id, display_order |-> order]

(* database contents: feature ids are unique, relation rows name existing
   features *)
SmallTables ==
  [maps |-> <<[map_id |-> 1, created_at |-> 5], [map_id |-> 2, created_at |-> 7]>>,
   features |-> << Feature(1, <<"a", "b">>), Feature(2, <<"c", "A", "B">>),
                   Feature(3, <<"a", "c">>), Feature(4, <<"b">>) >>,
   relations |-> << Relation(1, 2, 2), Relation(1, 1, 1), Relation(2, 3, 1),
                    Relation(1, 3, 2), Relation(1, 1, 3) >>]

BigTables ==
  [maps |-> <<>>,
   features |-> [i \in 1..12 |->
                   Feature(i, IF i = 4 THEN <<"z", "z">> ELSE <<"x", "A", "b">>)],
   relations |-> << Relation(1, 12, 1) >>]

Datasets == {SmallTables, BigTables}

MapIds == {1, 9}

SearchTerms ==
  { <<>>, <<"a">>, <<"a", "b">>, <<"A", "B">>, <<"z", "z">>, <<"a", "_">> }

IdleOp == [pc |-> "idle", kind |-> "", id |-> 0, term |-> <<>>, call |-> 0,
           result |-> <<>>, error |-> NoError, caught |-> NoError, fail |-> "none",
           prepared |-> 0, opened |-> 0, released |-> 0]

(* the calls of the facade: arguments the callers can pass *)
FacadeInputs ==
  { [kind |-> "queryMaps", id |-> 0, term |-> <<>>],
    [kind |-> "queryAllFeatures", id |-> 0, term |-> <<>>] }
  \cup { [kind |-> k, id |-> i, term |-> <<>>] :
            k \in {"queryFeaturesByMap", "handleSearchSelect"}, i \in MapIds }
  \cup { [kind |-> "searchFeatures", id |-> 0, term |-> t] : t \in SearchTerms }

StatementError(step) == NewError(step)

FacadeAtRest ==
  /\ tables = SmallTables
  /\ ops = [o \in Ops |-> IdleOp]

(* searchFeatures: the guard on the term *)
TooShortEmptyOnly(term) == Len(term) < 1

TooShort(term) == Len(term) < MinTermLength

(* which operations catch every error *)
SwallowsNoListing(kind) == kind \in {"searchFeatures", "handleSearchSelect"}

SwallowsNoSearch(kind) == kind \in {"queryMaps", "handleSearchSelect"}

SwallowsAll(kind) == TRUE

Swallows(kind) == kind \in {"queryMaps", "searchFeatures", "handleSearchSelect"}

(* the statement operations an operation performs after getDb resolved *)
StatementSteps(kind) ==
  IF kind = "queryMaps" THEN {"exec"}
  ELSE IF kind = "queryAllFeatures" THEN {"prepare", "step"}
  ELSE {"prepare", "bind", "step"}

Lower(ch) == IF ch = "A" THEN "a" ELSE IF ch = "B" THEN "b" ELSE ch

(* the LIKE operator of SQLite: % any run, _ any one character, letters
   compared without regard to ASCII case *)
RECURSIVE Like(_, _)
Like(pattern, text) ==
  IF pattern = <<>> THEN text = <<>>
  ELSE IF Head(pattern) = "%"
       THEN Like(Tail(pattern), text) \/ (text # <<>> /\ Like(pattern, Tail(text)))
       ELSE /\ text # <<>>
            /\ (Head(pattern) = "_" \/ Lower(Head(pattern)) = Lower(Head(text)))
            /\ Like(Tail(pattern), Tail(text))

Limit(rows, n) == SubSeq(rows, 1, IF Len(rows) < n THEN Len(rows) ELSE n)

(* ORDER BY r.display_order ASC, as a stable insertion sort *)
RECURSIVE InsertByOrder(_, _)
InsertByOrder(sorted, r) ==
  IF sorted = <<>> THEN <<r>>
  ELSE IF r.display_order < Head(sorted).display_order THEN <<r>> \o sorted
  ELSE <<Head(sorted)>> \o InsertByOrder(Tail(sorted), r)

RECURSIVE OrderByDisplayOrder(_)
OrderByDisplayOrder(rels) ==
  IF rels = <<>> THEN <<>>
  ELSE InsertByOrder(OrderByDisplayOrder(SubSeq(rels, 1, Len(rels) - 1)),
                     rels[Len(rels)])

(* the rows of the join for the relation rows rels, in their order *)
RECURSIVE JoinFeatures(_, _)
JoinFeatures(t, rels) ==
  IF rels = <<>> THEN <<>>
  ELSE LET Same(f) == f.feature_id = Head(rels).feature_id
       IN  SelectSeq(t.features, Same) \o JoinFeatures(t, Tail(rels))

FeaturesByMapRowsUnordered(t, mapId) ==
  LET OfMap(r) == r.map_id = mapId
  IN  JoinFeatures(t, SelectSeq(t.relations, OfMap))

(* queryFeaturesByMap: the rows of its statement *)
FeaturesByMapRows(t, mapId) ==
  LET OfMap(r) == r.map_id = mapId
  IN  JoinFeatures(t, OrderByDisplayOrder(SelectSeq(t.relations, OfMap)))

(* searchFeatures: the rows of its statement *)
SearchRows(t, term) ==
  LET Matches(f) == Like(<<"%">> \o term \o <<"%">>, f.name)
  IN  Limit(SelectSeq(t.features, Matches), SearchLimit)

(* queryMaps: ORDER BY created_at DESC *)
RECURSIVE InsertByCreated(_, _)
InsertByCreated(sorted, m) ==
  IF sorted = <<>> THEN <<m>>
  ELSE IF m.created_at > Head(sorted).created_at THEN <<m>> \o sorted
  ELSE <<Head(sorted)>> \o InsertByCreated(Tail(sorted), m)

RECURSIVE MapsRows(_)
MapsRows(maps) ==
  IF maps = <<>> THEN <<>>
  ELSE InsertByCreated(MapsRows(SubSeq(maps, 1, Len(maps) - 1)), maps[Len(maps)])

(* handleSearchSelect: one step of its statement *)
SelectRows(t, id) ==
  LET Same(f) == f.feature_id = id
  IN  Limit(SelectSeq(t.features, Same), 1)

Rows(t, op) ==
  IF op.kind = "queryMaps" THEN MapsRows(t.maps)
  ELSE IF op.kind = "queryFeaturesByMap" THEN FeaturesByMapRows(t, op.id)
  ELSE IF op.kind = "queryAllFeatures" THEN t.features
  ELSE IF op.kind = "searchFeatures" THEN SearchRows(t, op.term)
  ELSE SelectRows(t, op.id)

(* the catch of the operation, or its absence *)
Fails(op, err) ==
  IF Swallows(op.kind)
  THEN [op EXCEPT !.pc = "resolved", !.result = <<>>, !.caught = err]
  ELSE [op EXCEPT !.pc = "rejected", !.error = err]

(* the code after `await getDb`: the statement is prepared, bound, stepped
   and freed, and any of these calls may throw at step fail *)
Continue(t, op, call, fail) ==
  IF call.pc = "rejected" THEN Fails(op, call.error)
  ELSE LET steps == StatementSteps(op.kind)
           ran == [op EXCEPT
                     !.fail = fail,
                     !.prepared = IF "prepare" \in steps THEN 1 ELSE 0,
                     !.opened = IF "prepare" \in steps /\ fail # "prepare"
                                THEN 1 ELSE 0,
                     !.released = IF "prepare" \in steps /\ fail = "none"
                                  THEN 1 ELSE 0]
       IN  IF fail = "none"
           THEN [ran EXCEPT !.pc = "resolved", !.result = Rows(t, op)]
           ELSE Fails(ran, StatementError(fail))

(* ------------------- generateKml and resolveMapImagePath --------------- *)

MaxFeatures == 2

(* geometry_wkt values as sequences of lexemes; null stands for a missing
   geometry *)
Wkt(text) == [null |-> FALSE, text |-> text]

NullWkt == [null |-> TRUE, text |-> <<>>]

Geometries ==
  { Wkt(<<"POINT", "(", "121.5", " ", "25.0", ")">>),
    Wkt(<<"point", " ", "(", " ", "-1", " ", " ", "2", " ", ")">>),
    Wkt(<<"MULTI", "POINT", "(", "1", " ", "2", ")">>),
    Wkt(<<"POINT", "(", "121.5", ",", "25.0", ")">>),
    Wkt(<<"POINT", "(", "121.5", "25.0", ")">>),
    Wkt(<<"LINESTRING", "(", "1", " ", "2", ",", "3", " ", "4", ")">>),
    Wkt(<<>>),
    NullWkt }

FeatureNames == {"A", "B"}

KmlFeatures == [name : FeatureNames, geometry_wkt : Geometries]

RECURSIVE SeqsUpTo(_, _)
SeqsUpTo(S, n) ==
  IF n = 0 THEN {<<>>}
  ELSE LET shorter == SeqsUpTo(S, n - 1)
       IN  shorter \cup {Append(q, x) : q \in {r \in shorter : Len(r) = n - 1}, x \in S}

KmlInputs == SeqsUpTo(KmlFeatures, MaxFeatures)

(* the character class [-\d.] : lexemes made of digits, dots and minus signs *)
NumberLexemes == {"121.5", "25.0", "-1", "1", "2", "3", "4"}

RECURSIVE SkipSpaces(_, _)
SkipSpaces(w, i) ==
  IF i <= Len(w) /\ w[i] = " " THEN SkipSpaces(w, i + 1) ELSE i

Lexeme(w, i) == IF i >= 1 /\ i <= Len(w) THEN w[i] ELSE ""

(* the POINT pattern tried at position i: the two captured numbers, or <<>> *)
PointAt(w, i) ==
  LET open == SkipSpaces(w, i + 1)
      lon  == SkipSpaces(w, open + 1)
      gap  == lon + 1
      lat  == SkipSpaces(w, gap)
      shut == SkipSpaces(w, lat + 1)
  IN  IF /\ Lexeme(w, i) \in {"POINT", "point"}
         /\ Lexeme(w, open) = "("
         /\ Lexeme(w, lon) \in NumberLexemes
         /\ Lexeme(w, gap) = " "
         /\ Lexeme(w, lat) \in NumberLexemes
         /\ Lexeme(w, shut) = ")"
      THEN <<w[lon], w[lat]>>
      ELSE <<>>

(* String.prototype.match with the unanchored POINT pattern *)
PointMatch(w) ==
  IF \E i \in 1..Len(w) : PointAt(w, i) # <<>>
  THEN PointAt(w, CHOOSE i \in 1..Len(w) :
                    /\ PointAt(w, i) # <<>>
                    /\ \A j \in 1..(i - 1) : PointAt(w, j) = <<>>)
  ELSE <<>>

Placemark(f, m) == [name |-> f.name, coordinates |-> <<m[1], m[2], "0">>]

NoKml == [pc |-> "none", placemarks |-> <<>>]

(* generateKml: the forEach loop from feature i on, kml holding the
   placemarks written so far *)
RECURSIVE KmlLoop(_, _, _)
KmlLoop(features, i, placemarks) ==
  IF i > Len(features) THEN [pc |-> "returned", placemarks |-> placemarks]
  ELSE LET f == features[i]
       IN  IF f.geometry_wkt.null
           THEN [pc |-> "threw", placemarks |-> placemarks]
           ELSE LET m == PointMatch(f.geometry_wkt.text)
                IN  KmlLoop(features, i + 1,
                            IF m # <<>> THEN Append(placemarks, Placemark(f, m))
                            ELSE placemarks)

GenerateKml(features) == KmlLoop(features, 1, <<>>)

(* paths as sequences of lexemes; "/" and "\\" are the separators *)
Separators == {"/", "\\"}

ImagePaths ==
  { <<>>, <<"a.png">>,
    <<"..", "/", "assets", "/", "images", "/", "a.png">>,
    <<"dir", "\\", "a.png">>, <<"a", "/">>, <<"/">>,
    <<"https://other/", "x.png">>, <<"http-logo.png">> }

ImageBases == {<<"https://h/n/">>, <<"https://wuulong.github.io/">>}

(* lexemes whose first characters are "http" *)
HttpLexemes == {"https://other/", "http-logo.png"}

NullPath == [null |-> TRUE, url |-> <<>>]

PathOf(url) == [null |-> FALSE, url |-> url]

(* path.split(/[/\\]/).filter(Boolean): the non-empty components *)
RECURSIVE Components(_, _, _)
Components(path, i, cur) ==
  IF i > Len(path)
  THEN IF cur = <<>> THEN <<>> ELSE <<cur>>
  ELSE IF path[i] \in Separators
       THEN (IF cur = <<>> THEN <<>> ELSE <<cur>>) \o Components(path, i + 1, <<>>)
       ELSE Components(path, i + 1, Append(cur, path[i]))

ResolveMapImagePath(base, path) ==
  IF path = <<>> THEN NullPath
  ELSE IF path[1] \in HttpLexemes THEN PathOf(path)
  ELSE LET parts == Components(path, 1, <<>>)
       IN  IF parts = <<>> THEN NullPath
           ELSE PathOf(base \o <<"assets/images/">> \o parts[Len(parts)])

NoImage == [pc |-> "none", result |-> NullPath]

PureAtRest ==
  /\ kmlIn = <<>>
  /\ kmlOut = NoKml
  /\ imgIn = [base |-> <<>>, path |-> <<>>]
  /\ imgOut = NoImage

RestAtRest ==
  /\ FacadeAtRest
  /\ PureAtRest

(* ------------------------------- Init --------------------------------- *)

Init ==
  /\ dbInstance = NoDb
  /\ currentLoadedUrl = NoUrl
  /\ reloading = FALSE
  /\ isSwitching = FALSE
  /\ storage = NoUrl
  /\ sqljsModule \in ModuleShapes
  /\ nextDb = 1
  /\ calls = [c \in Calls |-> IdleCall]
  /\ hist = <<>>
  /\ reloadPending = "none"
  /\ lastWrites = <<>>
  /\ conns = [h \in Connects |-> IdleConn]
  /\ validatingId = "null"
  /\ swError = NoSwError
  /\ swOpen = FALSE
  /\ reg = IdleReg
  /\ marketSources = EmptyList
  /\ PageStart
  /\ reloads = 0
  /\ RestAtRest

Ev(kind, c) == [ev |-> kind, c |-> c]

Finish(c, call) ==
  /\ calls' = [calls EXCEPT ![c] = call]
  /\ hist' = IF Settled(call)
             THEN Append(hist, Ev("end", c)) ELSE hist

(* ------------------------------ actions ------------------------------- *)

(* getDb, from its entry to the first fetch of the engine binary *)
GetDb(c, baseUrl) ==
  /\ ~Busy
  /\ calls[c].pc = "idle"
  /\ \A d \in DOMAIN calls : d < c => calls[d].pc # "idle"
  /\ LET c0 == [calls[c] EXCEPT !.baseUrl = baseUrl]
         h  == Append(hist, Ev("start", c))
     IN  IF reloading
         THEN /\ calls' = [calls EXCEPT ![c] =
                            [c0 EXCEPT !.pc = "rejected", !.error = AbortErr]]
              /\ hist' = Append(h, Ev("end", c))
         ELSE IF CacheHit(dbInstance, currentLoadedUrl, baseUrl)
         THEN /\ calls' = [calls EXCEPT ![c] =
                            [c0 EXCEPT !.pc = "resolved", !.result = dbInstance,
                                       !.hit = TRUE]]
              /\ hist' = Append(h, Ev("end", c))
         ELSE LET c1 == [c0 EXCEPT !.logs =
                           Log(Log(<<>>, Entry("init", baseUrl, "", 0)),
                               Entry("phase1", NoUrl, "", 0))]
              IN  /\ calls' = [calls EXCEPT ![c] = WasmAttempt(c1, 1)]
                  /\ hist' = h
  /\ UNCHANGED <<dbInstance, currentLoadedUrl, reloading, isSwitching,
                 storage, sqljsModule, reloadPending, lastWrites, nextDb>>

(* the engine fetch settles: a response that is ok, one that is not, or a
   network error *)
WasmResponse(c, outcome) ==
  /\ ~Busy
  /\ calls[c].pc = "wasmFetch"
  /\ Finish(c, IF outcome = "ok" THEN [calls[c] EXCEPT !.pc = "wasmBody"]
               ELSE IF outcome = "http" THEN WasmFailed(calls[c], "HTTP 404")
               ELSE WasmFailed(calls[c], "Failed to fetch"))
  /\ UNCHANGED <<dbInstance, currentLoadedUrl, reloading, isSwitching,
                 storage, sqljsModule, reloadPending, lastWrites, nextDb>>

(* the engine body read settles; on success phases 2 and 3 start *)
WasmBody(c, ok) ==
  /\ ~Busy
  /\ calls[c].pc = "wasmBody"
  /\ LET call == calls[c]
         l1 == Log(Log(call.logs, Entry("wasmOk", NoUrl, "", 0)),
                   Entry("phase2", NoUrl, "", 0))
     IN  Finish(c,
           IF ~ok THEN WasmFailed(call, "Failed to fetch")
           ELSE IF GetSqlJsFactory(sqljsModule) = "null"
           THEN Rejected([call EXCEPT !.logs =
                            Log(l1, Entry("factoryFail", NoUrl, "", 0))],
                         NewError("Could not find SQL.js init function in module."))
           ELSE [call EXCEPT !.pc = "instantiate",
                             !.logs = Log(l1, Entry("phase3", NoUrl, "", 0))])
  /\ UNCHANGED <<dbInstance, currentLoadedUrl, reloading, isSwitching,
                 storage, sqljsModule, reloadPending, lastWrites, nextDb>>

(* initSqlJs settles; on success phase 4 issues the payload fetch *)
Instantiate(c, ok) ==
  /\ ~Busy
  /\ calls[c].pc = "instantiate"
  /\ LET call == calls[c]
         dbUrl == DbUrl(call.baseUrl)
     IN  Finish(c,
           IF ~ok THEN Rejected(call, NewError("engine instantiation failed"))
           ELSE [call EXCEPT !.pc = "dbFetch",
                   !.logs = Log(Log(call.logs, Entry("engineOk", NoUrl, "", 0)),
                                Entry("phase4", dbUrl, "", 0)),
                   !.reqs = Append(call.reqs, dbUrl)])
  /\ UNCHANGED <<dbInstance, currentLoadedUrl, reloading, isSwitching,
                 storage, sqljsModule, reloadPending, lastWrites, nextDb>>

(* fetchWithDiagnostics settles *)
DbResponse(c, outcome, status) ==
  /\ ~Busy
  /\ calls[c].pc = "dbFetch"
  /\ LET call == calls[c]
         dbUrl == DbUrl(call.baseUrl)
     IN  Finish(c,
           IF outcome = "ok" THEN [call EXCEPT !.pc = "dbBody"]
           ELSE IF outcome = "http"
           THEN Rejected(call, FetchCatch(HttpError("walkgis.db HTTP", status, dbUrl),
                                          reloading))
           ELSE Rejected(call, FetchCatch(NewError("Failed to fetch"), reloading)))
  /\ UNCHANGED <<dbInstance, currentLoadedUrl, reloading, isSwitching,
                 storage, sqljsModule, reloadPending, lastWrites, nextDb>>

(* the payload body read settles; size check, mount, probe and cache write
   run without a suspension point *)
DbBody(c, ok, size, kind, mountOk) ==
  /\ ~Busy
  /\ calls[c].pc = "dbBody"
  /\ LET call == calls[c]
         dbUrl == DbUrl(call.baseUrl)
         l1 == Log(call.logs, Entry("downloaded", NoUrl, "", size))
         l2 == Log(l1, Entry("phase5", NoUrl, "", 0))
         db == Database(nextDb, dbUrl, kind)
         l3 == Log(l2, Entry("phase6", NoUrl, "", 0))
         w  == CacheWrite([inst |-> dbInstance, url |-> currentLoadedUrl],
                          db, call.baseUrl)
     IN  IF ~ok
         THEN /\ Finish(c, Rejected(call, NewError("body read failed")))
              /\ UNCHANGED <<dbInstance, currentLoadedUrl, nextDb>>
         ELSE IF TooSmall(size)
         THEN /\ Finish(c, Rejected(
                     [call EXCEPT !.logs = Log(l1, Entry("tooSmall", NoUrl, "", 0))],
                     NewError("too small to be a valid SQLite database")))
              /\ UNCHANGED <<dbInstance, currentLoadedUrl, nextDb>>
         ELSE IF ~mountOk
         THEN /\ Finish(c, Rejected([call EXCEPT !.logs = l2],
                                    NewError("mount failed")))
              /\ UNCHANGED <<dbInstance, currentLoadedUrl, nextDb>>
         ELSE IF ~ProbeOk(db)
         THEN /\ Finish(c, Rejected(
                     [call EXCEPT !.newDb = db,
                        !.logs = Log(l3, Entry("verifyFail", NoUrl, "no such table", 0))],
                     NewError("does not contain the required WalkGIS tables")))
              /\ nextDb' = nextDb + 1
              /\ UNCHANGED <<dbInstance, currentLoadedUrl>>
         ELSE /\ dbInstance' = w.inst
              /\ currentLoadedUrl' = w.url
              /\ nextDb' = nextDb + 1
              /\ Finish(c, [call EXCEPT !.pc = "resolved", !.newDb = db,
                              !.result = w.inst,
                              !.logs = Log(Log(l3, Entry("verifyOk", NoUrl, "", 0)),
                                           Entry("success", NoUrl, "", 0))])
  /\ UNCHANGED <<reloading, isSwitching, storage, sqljsModule, reloadPending, lastWrites>>

(* DataSourceContext.setBaseUrl: the writes of the handler in program order *)
SwitchWritesPersistFirst(url) ==
  LET formattedUrl == IF EndsWithSlash(url) THEN url ELSE url \o <<"/">>
  IN  << [op |-> "setItem", url |-> formattedUrl],
         [op |-> "flag", url |-> NoUrl],
         [op |-> "isSwitching", url |-> NoUrl],
         [op |-> "reload", url |-> NoUrl] >>

SwitchWritesRaw(url) ==
  << [op |-> "flag", url |-> NoUrl],
     [op |-> "isSwitching", url |-> NoUrl],
     [op |-> "setItem", url |-> url],
     [op |-> "reload", url |-> NoUrl] >>

SwitchWrites(url) ==
  LET formattedUrl == IF EndsWithSlash(url) THEN url ELSE url \o <<"/">>
  IN  << [op |-> "flag", url |-> NoUrl],
         [op |-> "isSwitching", url |-> NoUrl],
         [op |-> "setItem", url |-> formattedUrl],
         [op |-> "reload", url |-> NoUrl] >>

(* the page state after the first k writes of ws *)
AfterWrites(st, ws, k) ==
  LET Has(o) == \E i \in 1..k : ws[i].op = o
      item == CHOOSE i \in 1..k : ws[i].op = "setItem"
  IN  [reloading   |-> st.reloading \/ Has("flag"),
       isSwitching |-> st.isSwitching \/ Has("isSwitching"),
       storage     |-> IF Has("setItem") THEN ws[item].url ELSE st.storage,
       reloadPending |-> IF Has("reload") THEN "switch" ELSE st.reloadPending]

SetBaseUrl(url) ==
  /\ ~Busy
  /\ LET ws == SwitchWrites(url)
         st == [reloading |-> reloading, isSwitching |-> isSwitching,
                storage |-> storage, reloadPending |-> reloadPending]
         end == AfterWrites(st, ws, Len(ws))
     IN  /\ reloading' = end.reloading
         /\ isSwitching' = end.isSwitching
         /\ storage' = end.storage
         /\ reloadPending' = end.reloadPending
         /\ lastWrites' = ws
  /\ UNCHANGED <<dbInstance, currentLoadedUrl, sqljsModule, nextDb, calls, hist>>

(* the caller of getDb receives the settled promise *)
Deliver(c) ==
  /\ Settled(calls[c])
  /\ calls' = [calls EXCEPT ![c] =
       [IdleCall EXCEPT !.pc = IF calls[c].pc = "resolved" THEN "doneOk" ELSE "doneErr",
                        !.baseUrl = calls[c].baseUrl,
                        !.result = calls[c].result,
                        !.hit = calls[c].hit]]
  /\ UNCHANGED <<dbInstance, currentLoadedUrl, reloading, isSwitching,
                 storage, sqljsModule, reloadPending, lastWrites, nextDb, hist>>

(* interleaved calls; the engine endpoints fail by network error only *)
Next ==
  \/ \E c \in Calls, a \in Addrs : GetDb(c, a) /\ UNCHANGED swVars /\ UNCHANGED appVars /\ UNCHANGED restVars
  \/ \E c \in Calls, o \in RaceOutcomes : WasmResponse(c, o) /\ UNCHANGED swVars /\ UNCHANGED appVars /\ UNCHANGED restVars
  \/ \E c \in Calls, ok \in BOOLEAN : WasmBody(c, ok) /\ UNCHANGED swVars /\ UNCHANGED appVars /\ UNCHANGED restVars
  \/ \E c \in Calls, ok \in BOOLEAN : Instantiate(c, ok) /\ UNCHANGED swVars /\ UNCHANGED appVars /\ UNCHANGED restVars
  \/ \E c \in Calls, o \in Outcomes, st \in FailStatuses : DbResponse(c, o, st) /\ UNCHANGED swVars /\ UNCHANGED appVars /\ UNCHANGED restVars
  \/ \E c \in Calls, ok \in BOOLEAN, n \in PayloadSizes, k \in PayloadKinds,
        m \in BOOLEAN : DbBody(c, ok, n, k, m) /\ UNCHANGED swVars /\ UNCHANGED appVars /\ UNCHANGED restVars
  \/ \E c \in Calls : Deliver(c) /\ UNCHANGED swVars /\ UNCHANGED appVars /\ UNCHANGED restVars
  \/ \E u \in SwitchInputs : SetBaseUrl(u) /\ UNCHANGED swVars /\ UNCHANGED appVars /\ UNCHANGED restVars

Spec == Init /\ [][Next]_vars

(* the bind protocol under every outcome of every request *)
NextBind ==
  \/ \E c \in BindCalls, a \in Addrs : GetDb(c, a) /\ UNCHANGED swVars /\ UNCHANGED appVars /\ UNCHANGED restVars
  \/ \E c \in BindCalls, o \in Outcomes : WasmResponse(c, o) /\ UNCHANGED swVars /\ UNCHANGED appVars /\ UNCHANGED restVars
  \/ \E c \in BindCalls, ok \in BOOLEAN : WasmBody(c, ok) /\ UNCHANGED swVars /\ UNCHANGED appVars /\ UNCHANGED restVars
  \/ \E c \in BindCalls, ok \in BOOLEAN : Instantiate(c, ok) /\ UNCHANGED swVars /\ UNCHANGED appVars /\ UNCHANGED restVars
  \/ \E c \in BindCalls, o \in Outcomes, st \in FailStatuses : DbResponse(c, o, st) /\ UNCHANGED swVars /\ UNCHANGED appVars /\ UNCHANGED restVars
  \/ \E c \in BindCalls, ok \in BOOLEAN, n \in PayloadSizes, k \in PayloadKinds,
        m \in BOOLEAN : DbBody(c, ok, n, k, m) /\ UNCHANGED swVars /\ UNCHANGED appVars /\ UNCHANGED restVars
  \/ \E c \in BindCalls : Deliver(c) /\ UNCHANGED swVars /\ UNCHANGED appVars /\ UNCHANGED restVars
  \/ \E u \in SwitchInputs : SetBaseUrl(u) /\ UNCHANGED swVars /\ UNCHANGED appVars /\ UNCHANGED restVars

(* ----------------- actions of the SourceSwitcher dialog ----------------- *)

(* the dialog mounts: its effect issues fetchMarketRegistry *)
SwitcherMount ==
  /\ ~swOpen
  /\ ~isSwitching
  /\ swOpen' = TRUE
  /\ reg' = [IdleReg EXCEPT !.pc = "fetching"]
  /\ UNCHANGED <<conns, validatingId, swError, marketSources>>
  /\ UNCHANGED dbVars
  /\ UNCHANGED switchVars

(* the registry was delivered to the dialog's effect *)
RegistryDone(r, sources) ==
  /\ reg' = [r EXCEPT !.pc = "done", !.result = sources]
  /\ marketSources' = IF swOpen THEN sources ELSE marketSources

(* fetchMarketRegistry: the fetch settles *)
RegistryResponse(outcome) ==
  /\ reg.pc = "fetching"
  /\ IF outcome = "ok"
     THEN /\ reg' = [reg EXCEPT !.pc = "parsing"]
          /\ UNCHANGED marketSources
     ELSE RegistryDone(reg, EmptyList)
  /\ UNCHANGED <<conns, validatingId, swError, swOpen>>
  /\ UNCHANGED dbVars
  /\ UNCHANGED switchVars

(* fetchMarketRegistry: response.json() settles *)
RegistryJson(body) ==
  /\ reg.pc = "parsing"
  /\ RegistryDone(reg, RegistrySources(body))
  /\ UNCHANGED <<conns, validatingId, swError, swOpen>>
  /\ UNCHANGED dbVars
  /\ UNCHANGED switchVars

(* handleConnect up to the await of validateDataSource, which runs up to
   its fetch; key: the Enter key in the address field, otherwise a button *)
HandleConnect(h, url, id, key) ==
  /\ swOpen
  /\ conns[h].pc = "idle"
  /\ \A g \in Connects : g < h => conns[g].pc # "idle"
  /\ \/ key /\ id = "custom"
     \/ ~key /\ validatingId = "null"
  /\ url # <<>>
  /\ ~isSwitching
  /\ validatingId' = id
  /\ swError' = NoSwError
  /\ LET target == ConnectTarget(url)
     IN  conns' = [conns EXCEPT ![h] =
           [pc |-> "fetching", target |-> target, probe |-> ProbeUrl(target),
            timer |-> "armed", elapsed |-> FALSE, valid |-> "none"]]
  /\ UNCHANGED <<swOpen, reg, marketSources>>
  /\ UNCHANGED dbVars
  /\ UNCHANGED switchVars

(* validateDataSource settles and handleConnect runs to its end *)
ValidateReturn(h, conn, valid) ==
  /\ conns' = [conns EXCEPT ![h] = [conn EXCEPT !.pc = "done", !.valid = valid]]
  /\ LET dbUrl == conn.target \o <<"walkgis.db">>
         outcome == ConnectOutcome(valid)
     IN  IF outcome = "switch"
         THEN /\ SetBaseUrl(conn.target)
              /\ UNCHANGED <<validatingId, swError>>
         ELSE /\ IF outcome = "return"
                 THEN UNCHANGED <<validatingId, swError>>
                 ELSE /\ swError' = [message |-> outcome, url |-> dbUrl]
                      /\ validatingId' = "null"
              /\ UNCHANGED dbVars
              /\ UNCHANGED switchVars
  /\ UNCHANGED <<swOpen, reg, marketSources>>

(* validateDataSource: the probe's response headers arrive *)
ProbeResponse(h, ok, hasBody) ==
  /\ conns[h].pc = "fetching"
  /\ LET conn == [conns[h] EXCEPT !.timer = "cleared"]
     IN  IF ok /\ hasBody
         THEN /\ conns' = [conns EXCEPT ![h] = [conn EXCEPT !.pc = "cancelling"]]
              /\ UNCHANGED <<validatingId, swError, swOpen, reg, marketSources>>
              /\ UNCHANGED dbVars
              /\ UNCHANGED switchVars
         ELSE ValidateReturn(h, conn, IF ok THEN "true" ELSE "false")

(* validateDataSource: the probe fails before any response *)
ProbeNetError(h) ==
  /\ conns[h].pc = "fetching"
  /\ ValidateReturn(h, conns[h], ValidateCatch("TypeError"))

(* validateDataSource: reader.cancel() settles *)
ProbeCancelDone(h, ok) ==
  /\ conns[h].pc = "cancelling"
  /\ ValidateReturn(h, conns[h], IF ok THEN "true" ELSE ValidateCatch("TypeError"))

(* the timeout period of the probe elapses; an armed timer aborts the fetch *)
TimeoutElapses(h) ==
  /\ conns[h].pc # "idle"
  /\ ~conns[h].elapsed
  /\ LET conn == [conns[h] EXCEPT !.elapsed = TRUE,
                     !.timer = IF conns[h].timer = "armed" THEN "fired" ELSE @]
     IN  IF conns[h].timer = "armed" /\ conns[h].pc = "fetching"
         THEN ValidateReturn(h, conn, ValidateCatch("AbortError"))
         ELSE /\ conns' = [conns EXCEPT ![h] = conn]
              /\ UNCHANGED <<validatingId, swError, swOpen, reg, marketSources>>
              /\ UNCHANGED dbVars
              /\ UNCHANGED switchVars

(* window.location.reload() takes effect: a new page, storage survives *)
PageLoad ==
  /\ reloadPending # "none"
  /\ dbInstance' = NoDb
  /\ currentLoadedUrl' = NoUrl
  /\ nextDb' = 1
  /\ calls' = [c \in DOMAIN calls |-> IdleCall]
  /\ hist' = <<>>
  /\ reloading' = FALSE
  /\ isSwitching' = FALSE
  /\ reloadPending' = "none"
  /\ lastWrites' = <<>>
  /\ conns' = [h \in Connects |-> IdleConn]
  /\ validatingId' = "null"
  /\ swError' = NoSwError
  /\ swOpen' = FALSE
  /\ reg' = IdleReg
  /\ marketSources' = EmptyList
  /\ ctxBaseUrl' = DEFAULT_SOURCE
  /\ isLoading' = TRUE
  /\ dbStatus' = "loading"
  /\ errorDetails' = NoDetails
  /\ appCall' = 0
  /\ boot' = "init"
  /\ view' = "home"
  /\ mdStatus' = "unmounted"
  /\ mdPc' = "off"
  /\ mdCall' = 0
  /\ UNCHANGED <<storage, sqljsModule>>

(* the dialog, its probes and the switch they commit *)
NextSwitcher ==
  \/ SwitcherMount /\ UNCHANGED appVars /\ UNCHANGED restVars
  \/ \E o \in Outcomes : RegistryResponse(o) /\ UNCHANGED appVars /\ UNCHANGED restVars
  \/ \E b \in RegistryBodies : RegistryJson(b) /\ UNCHANGED appVars /\ UNCHANGED restVars
  \/ \E h \in Connects, u \in UrlInputs, id \in SourceIds, key \in BOOLEAN :
        HandleConnect(h, u, id, key) /\ UNCHANGED appVars /\ UNCHANGED restVars
  \/ \E h \in Connects, ok \in BOOLEAN, hasBody \in BOOLEAN :
        ProbeResponse(h, ok, hasBody) /\ UNCHANGED appVars /\ UNCHANGED restVars
  \/ \E h \in Connects : ProbeNetError(h) /\ UNCHANGED appVars /\ UNCHANGED restVars
  \/ \E h \in Connects, ok \in BOOLEAN : ProbeCancelDone(h, ok) /\ UNCHANGED appVars /\ UNCHANGED restVars
  \/ \E h \in Connects : TimeoutElapses(h) /\ UNCHANGED appVars /\ UNCHANGED restVars
  \/ PageLoad /\ UNCHANGED reloads /\ UNCHANGED restVars

SpecSwitcher == Init /\ [][NextSwitcher]_vars

(* --------------------- actions of AppContent and MapDetail ------------- *)

(* the body of AppContent's effect for the address url: getDb(url) is issued
   as call c and the effect's isMounted flag belongs to c *)
AppEffect(c, url) ==
  /\ GetDb(c, url)
  /\ appCall' = c
  /\ dbStatus' = "loading"
  /\ errorDetails' = NoDetails

(* first commit of the page: AppContent's effect runs with the initial
   context value, before the provider's effect has read storage *)
AppMount ==
  /\ boot = "init"
  /\ boot' = "child"
  /\ IF ctxBaseUrl = NoUrl \/ isSwitching \/ reloading
     THEN /\ UNCHANGED <<appCall, dbStatus, errorDetails>>
          /\ UNCHANGED dbVars
          /\ UNCHANGED switchVars
     ELSE \E c \in DOMAIN calls : AppEffect(c, ctxBaseUrl)
  /\ UNCHANGED <<ctxBaseUrl, isLoading, view, mdStatus, mdPc, mdCall, reloads>>
  /\ UNCHANGED swVars

(* the provider's effect reads storage; a changed address re-runs
   AppContent's effect, whose cleanup drops the previous isMounted flag *)
ProviderMount ==
  /\ boot = "child"
  /\ boot' = "run"
  /\ isLoading' = FALSE
  /\ IF storage # NoUrl /\ storage # ctxBaseUrl
     THEN /\ ctxBaseUrl' = storage
          /\ \E c \in DOMAIN calls : AppEffect(c, storage)
     ELSE /\ UNCHANGED <<ctxBaseUrl, appCall, dbStatus, errorDetails>>
          /\ UNCHANGED dbVars
          /\ UNCHANGED switchVars
  /\ UNCHANGED <<view, mdStatus, mdPc, mdCall, reloads>>
  /\ UNCHANGED swVars

(* the reaction of AppContent to its settled getDb call *)
AppReactionSilent(call) ==
  /\ dbStatus' = IF call.pc = "resolved" /\ ~reloading THEN "ready" ELSE dbStatus
  /\ UNCHANGED errorDetails

AppReaction(call) ==
  IF call.pc = "resolved"
  THEN /\ dbStatus' = IF ~reloading THEN "ready" ELSE dbStatus
       /\ UNCHANGED errorDetails
  ELSE IF call.error.name = "AbortError" \/ reloading
       THEN UNCHANGED <<dbStatus, errorDetails>>
       ELSE /\ dbStatus' = "error"
            /\ errorDetails' = ErrorDetails(call.error, call.baseUrl)

(* MapDetail.loadData resumes after one of its getDb calls settled *)
MapReaction(call, stmtOk) ==
  IF call.pc = "rejected" \/ ~stmtOk
  THEN mdStatus' = "error" /\ mdPc' = "off"
  ELSE /\ mdPc' = IF mdPc = "db" THEN "query" ELSE "markdown"
       /\ UNCHANGED mdStatus

(* a settled getDb call is delivered to the component that awaits it *)
AppDeliverAnyCall(c, stmtOk) ==
  /\ Deliver(c)
  /\ AppReaction(calls[c])
  /\ IF c = mdCall /\ mdPc \in {"db", "features"}
     THEN MapReaction(calls[c], stmtOk)
     ELSE UNCHANGED <<mdStatus, mdPc>>
  /\ UNCHANGED <<ctxBaseUrl, isLoading, appCall, boot, view, mdCall, reloads>>
  /\ UNCHANGED swVars

AppDeliver(c, stmtOk) ==
  /\ Deliver(c)
  /\ IF c = appCall
     THEN AppReaction(calls[c])
     ELSE UNCHANGED <<dbStatus, errorDetails>>
  /\ IF c = mdCall /\ mdPc \in {"db", "features"}
     THEN MapReaction(calls[c], stmtOk)
     ELSE UNCHANGED <<mdStatus, mdPc>>
  /\ UNCHANGED <<ctxBaseUrl, isLoading, appCall, boot, view, mdCall, reloads>>
  /\ UNCHANGED swVars

(* Home: a map is selected, MapDetail mounts and loadData starts *)
SelectMap(c) ==
  /\ boot = "run"
  /\ Rendered = "home"
  /\ c + 1 \in DOMAIN calls
  /\ view' = "map-detail"
  /\ mdStatus' = "loading"
  /\ GetDb(c, ctxBaseUrl)
  /\ mdCall' = c
  /\ mdPc' = "db"
  /\ UNCHANGED <<ctxBaseUrl, isLoading, dbStatus, errorDetails, appCall, boot, reloads>>
  /\ UNCHANGED swVars

(* MapDetail.loadData: queryFeaturesByMap issues its own getDb *)
MapQuery(c) ==
  /\ mdPc = "query"
  /\ GetDb(c, ctxBaseUrl)
  /\ mdCall' = c
  /\ mdPc' = "features"
  /\ UNCHANGED <<ctxBaseUrl, isLoading, dbStatus, errorDetails, appCall, boot,
                 view, mdStatus, reloads>>
  /\ UNCHANGED swVars

(* MapDetail.loadData: fetchMapMarkdown settles; a failed fetch is caught in
   fetchMarkdown and yields the empty text *)
MapMarkdown(ok) ==
  /\ mdPc = "markdown"
  /\ ~Busy
  /\ mdStatus' = "ready"
  /\ mdPc' = "off"
  /\ UNCHANGED <<ctxBaseUrl, isLoading, dbStatus, errorDetails, appCall, boot,
                 view, mdCall, reloads>>
  /\ UNCHANGED swVars
  /\ UNCHANGED dbVars
  /\ UNCHANGED switchVars

(* handleGoHome: MapDetail unmounts *)
GoHome ==
  /\ boot = "run"
  /\ ~Busy
  /\ Rendered = "map-detail"
  /\ mdPc # "query"
  /\ view' = "home"
  /\ mdStatus' = "unmounted"
  /\ mdPc' = "off"
  /\ mdCall' = 0
  /\ UNCHANGED <<ctxBaseUrl, isLoading, dbStatus, errorDetails, appCall, boot, reloads>>
  /\ UNCHANGED swVars
  /\ UNCHANGED dbVars
  /\ UNCHANGED switchVars

(* the connection-error view: "Try Again" *)
TryAgain ==
  /\ boot = "run"
  /\ ~Busy
  /\ Rendered = "error"
  /\ reloadPending' = "retry"
  /\ UNCHANGED <<reloading, isSwitching, storage, lastWrites>>
  /\ UNCHANGED appVars
  /\ UNCHANGED swVars
  /\ UNCHANGED dbVars

(* the connection-error view: "Reset to Default" *)
ResetToDefault ==
  /\ boot = "run"
  /\ ~Busy
  /\ Rendered = "error"
  /\ storage' = RemoveItem(storage)
  /\ reloadPending' = "reset"
  /\ UNCHANGED <<reloading, isSwitching, lastWrites>>
  /\ UNCHANGED appVars
  /\ UNCHANGED swVars
  /\ UNCHANGED dbVars

(* what a step of the dialog means to AppContent: when isSwitching becomes
   true the effect's cleanup runs and the overlay replaces the page *)
(* setBaseUrl and the in-memory baseUrl of the provider: the handler never
   calls setBaseUrlState *)
ActiveAfterSwitchEager(current, stored) ==
  IF stored # NoUrl THEN stored ELSE current

ActiveAfterSwitch(current, stored) == current

AppFollows ==
  /\ IF isSwitching' /\ ~isSwitching
     THEN /\ appCall' = 0
          /\ mdStatus' = "unmounted"
          /\ mdPc' = "off"
          /\ mdCall' = 0
     ELSE UNCHANGED <<appCall, mdStatus, mdPc, mdCall>>
  /\ ctxBaseUrl' = ActiveAfterSwitch(ctxBaseUrl, storage')
  /\ UNCHANGED <<isLoading, dbStatus, errorDetails, boot, view, reloads>>

(* no effect or continuation of the page is waiting to run *)
Quiet == boot = "run" /\ mdPc # "query" /\ ~Busy

(* the reload replaces the page *)
AppPageLoad ==
  /\ ~Busy
  /\ mdPc # "query"
  /\ boot = "run"
  /\ PageLoad
  /\ reloads' = reloads + 1

StoredAddrs == {NoUrl} \cup Addrs

AppUrlInputs == {<<"example.org">>}

AppConnects == {1}

AppOutcomes == {"ok", "net"}

(* the page from cold start: AppContent, MapDetail and the dialog *)
NextApp ==
  \/ AppMount /\ UNCHANGED restVars
  \/ ProviderMount /\ UNCHANGED restVars
  \/ \E c \in AppCalls :
        Quiet /\ WasmResponse(c, "ok") /\ UNCHANGED swVars /\ UNCHANGED appVars /\ UNCHANGED restVars
  \/ \E c \in AppCalls :
        Quiet /\ WasmBody(c, TRUE) /\ UNCHANGED swVars /\ UNCHANGED appVars /\ UNCHANGED restVars
  \/ \E c \in AppCalls :
        Quiet /\ Instantiate(c, TRUE) /\ UNCHANGED swVars /\ UNCHANGED appVars /\ UNCHANGED restVars
  \/ \E c \in AppCalls, o \in AppOutcomes :
        Quiet /\ DbResponse(c, o, 404) /\ UNCHANGED swVars /\ UNCHANGED appVars /\ UNCHANGED restVars
  \/ \E c \in AppCalls :
        Quiet /\ DbBody(c, TRUE, 101, "walkgis", TRUE)
              /\ UNCHANGED swVars /\ UNCHANGED appVars /\ UNCHANGED restVars
  \/ \E c \in AppCalls, stmtOk \in BOOLEAN : AppDeliver(c, stmtOk) /\ UNCHANGED restVars
  \/ \E c \in AppCalls : SelectMap(c) /\ UNCHANGED restVars
  \/ \E c \in AppCalls : MapQuery(c) /\ UNCHANGED restVars
  \/ \E ok \in BOOLEAN : MapMarkdown(ok) /\ UNCHANGED restVars
  \/ GoHome /\ UNCHANGED restVars
  \/ reloads < MaxReloads /\ TryAgain /\ UNCHANGED restVars
  \/ reloads < MaxReloads /\ ResetToDefault /\ UNCHANGED restVars
  \/ Quiet /\ SwitcherMount /\ UNCHANGED appVars /\ UNCHANGED restVars
  \/ Quiet /\ RegistryResponse("net") /\ UNCHANGED appVars /\ UNCHANGED restVars
  \/ \E h \in AppConnects, u \in AppUrlInputs :
        /\ Quiet
        /\ reloads < MaxReloads
        /\ HandleConnect(h, u, "custom", FALSE)
        /\ UNCHANGED appVars /\ UNCHANGED restVars
  \/ \E h \in AppConnects, ok \in BOOLEAN, hasBody \in BOOLEAN :
        Quiet /\ ProbeResponse(h, ok, hasBody) /\ AppFollows /\ UNCHANGED restVars
  \/ \E h \in AppConnects : Quiet /\ ProbeNetError(h) /\ AppFollows /\ UNCHANGED restVars
  \/ \E h \in AppConnects, ok \in BOOLEAN :
        Quiet /\ ProbeCancelDone(h, ok) /\ AppFollows /\ UNCHANGED restVars
  \/ \E h \in AppConnects : Quiet /\ TimeoutElapses(h) /\ AppFollows /\ UNCHANGED restVars
  \/ AppPageLoad /\ UNCHANGED restVars

InitApp ==
  /\ dbInstance = NoDb
  /\ currentLoadedUrl = NoUrl
  /\ reloading = FALSE
  /\ isSwitching = FALSE
  /\ storage \in StoredAddrs
  /\ sqljsModule \in ModuleShapes
  /\ nextDb = 1
  /\ calls = [c \in AppCalls |-> IdleCall]
  /\ hist = <<>>
  /\ reloadPending = "none"
  /\ lastWrites = <<>>
  /\ conns = [h \in Connects |-> IdleConn]
  /\ validatingId = "null"
  /\ swError = NoSwError
  /\ swOpen = FALSE
  /\ reg = IdleReg
  /\ marketSources = EmptyList
  /\ PageStart
  /\ reloads = 0
  /\ RestAtRest

SpecApp == InitApp /\ [][NextApp]_vars

(* a pending request of getDb call c settles *)
NetStep(c) ==
  /\ Quiet
  /\ \/ WasmResponse(c, "ok")
     \/ WasmBody(c, TRUE)
     \/ Instantiate(c, TRUE)
     \/ \E o \in AppOutcomes : DbResponse(c, o, 404)
     \/ DbBody(c, TRUE, 101, "walkgis", TRUE)
  /\ UNCHANGED swVars
  /\ UNCHANGED appVars
  /\ UNCHANGED restVars

(* the probe of handleConnect h moves on *)
ProbeStep(h) ==
  /\ Quiet
  /\ \/ \E ok \in BOOLEAN, hasBody \in BOOLEAN : ProbeResponse(h, ok, hasBody)
     \/ ProbeNetError(h)
     \/ \E ok \in BOOLEAN : ProbeCancelDone(h, ok)
     \/ TimeoutElapses(h)
  /\ AppFollows
  /\ UNCHANGED restVars

(* effects and continuations run, every issued request settles, a requested
   reload takes place *)
LiveFair ==
  /\ WF_vars(AppMount /\ UNCHANGED restVars)
  /\ WF_vars(ProviderMount /\ UNCHANGED restVars)
  /\ \A c \in AppCalls : WF_vars(NetStep(c))
  /\ \A c \in AppCalls :
       WF_vars((\E stmtOk \in BOOLEAN : AppDeliver(c, stmtOk)) /\ UNCHANGED restVars)
  /\ \A c \in AppCalls : WF_vars(MapQuery(c) /\ UNCHANGED restVars)
  /\ WF_vars((\E ok \in BOOLEAN : MapMarkdown(ok)) /\ UNCHANGED restVars)
  /\ \A h \in AppConnects : WF_vars(ProbeStep(h))
  /\ WF_vars(AppPageLoad /\ UNCHANGED restVars)

SpecLive == InitApp /\ [][NextApp]_vars /\ LiveFair

(* ------------------------- the pure helpers ---------------------------- *)

CallGenerateKml ==
  /\ kmlOut.pc = "none"
  /\ kmlOut' = GenerateKml(kmlIn)
  /\ UNCHANGED <<kmlIn, imgIn, imgOut>>
  /\ UNCHANGED <<dbVars, switchVars, swVars, appVars, facadeVars>>

CallResolveMapImagePath ==
  /\ imgOut.pc = "none"
  /\ imgOut' = [pc |-> "returned", result |-> ResolveMapImagePath(imgIn.base, imgIn.path)]
  /\ UNCHANGED <<kmlIn, kmlOut, imgIn>>
  /\ UNCHANGED <<dbVars, switchVars, swVars, appVars, facadeVars>>

NextPure ==
  \/ CallGenerateKml
  \/ CallResolveMapImagePath

InitPure ==
  /\ dbInstance = NoDb
  /\ currentLoadedUrl = NoUrl
  /\ reloading = FALSE
  /\ isSwitching = FALSE
  /\ storage = NoUrl
  /\ sqljsModule = "default"
  /\ nextDb = 1
  /\ calls = [c \in Calls |-> IdleCall]
  /\ hist = <<>>
  /\ reloadPending = "none"
  /\ lastWrites = <<>>
  /\ conns = [h \in Connects |-> IdleConn]
  /\ validatingId = "null"
  /\ swError = NoSwError
  /\ swOpen = FALSE
  /\ reg = IdleReg
  /\ marketSources = EmptyList
  /\ PageStart
  /\ reloads = 0
  /\ FacadeAtRest
  /\ kmlIn \in KmlInputs
  /\ kmlOut = NoKml
  /\ imgIn \in [base : ImageBases, path : ImagePaths]
  /\ imgOut = NoImage

SpecPure == InitPure /\ [][NextPure]_vars

InitBind ==
  /\ dbInstance = NoDb
  /\ currentLoadedUrl = NoUrl
  /\ reloading = FALSE
  /\ isSwitching = FALSE
  /\ storage = NoUrl
  /\ sqljsModule \in AllModuleShapes
  /\ nextDb = 1
  /\ calls = [c \in Calls |-> IdleCall]
  /\ hist = <<>>
  /\ reloadPending = "none"
  /\ lastWrites = <<>>
  /\ conns = [h \in Connects |-> IdleConn]
  /\ validatingId = "null"
  /\ swError = NoSwError
  /\ swOpen = FALSE
  /\ reg = IdleReg
  /\ marketSources = EmptyList
  /\ PageStart
  /\ reloads = 0
  /\ RestAtRest

SpecBind == InitBind /\ [][NextBind]_vars

TypeOK ==
  /\ reloading \in BOOLEAN
  /\ nextDb \in 1..(MaxCalls + 1)
  /\ \A c \in Calls : calls[c].pc \in
       {"idle", "wasmFetch", "wasmBody", "instantiate", "dbFetch", "dbBody",
        "resolved", "rejected", "doneOk", "doneErr"}

(* ------------------------ actions of the facade ------------------------ *)

FacadeCalls == 1..MaxOps

(* a caller invokes one of the query functions *)
FacadeStart(o, in) ==
  /\ ~Busy
  /\ ops[o].pc = "idle"
  /\ \A p \in Ops : p < o => ops[p].pc # "idle"
  /\ LET op == [ops[o] EXCEPT !.kind = in.kind, !.id = in.id, !.term = in.term]
     IN  IF in.kind = "searchFeatures" /\ TooShort(in.term)
         THEN /\ ops' = [ops EXCEPT ![o] = [op EXCEPT !.pc = "resolved"]]
              /\ UNCHANGED <<dbVars, switchVars>>
         ELSE \E c \in DOMAIN calls :
                /\ GetDb(c, DEFAULT_SOURCE)
                /\ ops' = [ops EXCEPT ![o] = [op EXCEPT !.pc = "awaiting", !.call = c]]
  /\ UNCHANGED tables

(* the promise of getDb settles and the rest of the function runs *)
FacadeDeliver(c, fail) ==
  /\ Deliver(c)
  /\ \E o \in Ops :
        /\ ops[o].pc = "awaiting"
        /\ ops[o].call = c
        /\ fail \in {"none"} \cup StatementSteps(ops[o].kind)
        /\ calls[c].pc = "rejected" => fail = "none"
        /\ ops' = [ops EXCEPT ![o] = Continue(tables, ops[o], calls[c], fail)]
  /\ UNCHANGED tables

FacadeOutcomes == {"ok", "net"}

NextFacade ==
  \/ \E o \in Ops, in \in FacadeInputs :
        FacadeStart(o, in) /\ UNCHANGED <<swVars, appVars, pureVars>>
  \/ \E c \in FacadeCalls :
        WasmResponse(c, "ok") /\ UNCHANGED <<swVars, appVars, restVars>>
  \/ \E c \in FacadeCalls :
        WasmBody(c, TRUE) /\ UNCHANGED <<swVars, appVars, restVars>>
  \/ \E c \in FacadeCalls :
        Instantiate(c, TRUE) /\ UNCHANGED <<swVars, appVars, restVars>>
  \/ \E c \in FacadeCalls, o \in FacadeOutcomes :
        DbResponse(c, o, 404) /\ UNCHANGED <<swVars, appVars, restVars>>
  \/ \E c \in FacadeCalls :
        DbBody(c, TRUE, 101, "walkgis", TRUE) /\ UNCHANGED <<swVars, appVars, restVars>>
  \/ \E c \in FacadeCalls, fail \in {"none", "exec", "prepare", "bind", "step"} :
        FacadeDeliver(c, fail) /\ UNCHANGED <<swVars, appVars, pureVars>>
  \/ \E u \in SwitchInputs :
        SetBaseUrl(u) /\ UNCHANGED <<swVars, appVars, restVars>>

InitFacade ==
  /\ dbInstance = NoDb
  /\ currentLoadedUrl = NoUrl
  /\ reloading = FALSE
  /\ isSwitching = FALSE
  /\ storage = NoUrl
  /\ sqljsModule = "default"
  /\ nextDb = 1
  /\ calls = [c \in FacadeCalls |-> IdleCall]
  /\ hist = <<>>
  /\ reloadPending = "none"
  /\ lastWrites = <<>>
  /\ conns = [h \in Connects |-> IdleConn]
  /\ validatingId = "null"
  /\ swError = NoSwError
  /\ swOpen = FALSE
  /\ reg = IdleReg
  /\ marketSources = EmptyList
  /\ PageStart
  /\ reloads = 0
  /\ tables \in Datasets
  /\ ops = [o \in Ops |-> IdleOp]
  /\ PureAtRest

SpecFacade == InitFacade /\ [][NextFacade]_vars

(* --------------------- a page that binds repeatedly -------------------- *)

FrameCalls == 1..MaxFrameCalls

FrameOutcomes == {"ok", "net"}

FrameKinds == {"walkgis", "otherdb"}

(* getDb called again and again in one page lifetime, no switch *)
NextFrame ==
  \/ \E c \in FrameCalls, a \in Addrs :
        GetDb(c, a) /\ UNCHANGED <<swVars, appVars, restVars>>
  \/ \E c \in FrameCalls :
        WasmResponse(c, "ok") /\ UNCHANGED <<swVars, appVars, restVars>>
  \/ \E c \in FrameCalls :
        WasmBody(c, TRUE) /\ UNCHANGED <<swVars, appVars, restVars>>
  \/ \E c \in FrameCalls, ok \in BOOLEAN :
        Instantiate(c, ok) /\ UNCHANGED <<swVars, appVars, restVars>>
  \/ \E c \in FrameCalls, o \in FrameOutcomes :
        DbResponse(c, o, 404) /\ UNCHANGED <<swVars, appVars, restVars>>
  \/ \E c \in FrameCalls, n \in PayloadSizes, k \in FrameKinds :
        DbBody(c, TRUE, n, k, TRUE) /\ UNCHANGED <<swVars, appVars, restVars>>
  \/ \E c \in FrameCalls :
        Deliver(c) /\ UNCHANGED <<swVars, appVars, restVars>>

InitFrame ==
  /\ dbInstance = NoDb
  /\ currentLoadedUrl = NoUrl
  /\ reloading = FALSE
  /\ isSwitching = FALSE
  /\ storage = NoUrl
  /\ sqljsModule = "default"
  /\ nextDb = 1
  /\ calls = [c \in FrameCalls |-> IdleCall]
  /\ hist = <<>>
  /\ reloadPending = "none"
  /\ lastWrites = <<>>
  /\ conns = [h \in Connects |-> IdleConn]
  /\ validatingId = "null"
  /\ swError = NoSwError
  /\ swOpen = FALSE
  /\ reg = IdleReg
  /\ marketSources = EmptyList
  /\ PageStart
  /\ reloads = 0
  /\ RestAtRest

SpecFrame == InitFrame /\ [][NextFrame]_vars

(* ---------------------- vocabulary of the properties ------------------- *)

Idx(kind, c) == CHOOSE i \in 1..Len(hist) : hist[i] = Ev(kind, c)

Started(c) == \E i \in 1..Len(hist) : hist[i] = Ev("start", c)

Ended(c) == \E i \in 1..Len(hist) : hist[i] = Ev("end", c)

Succeeded(call) == call.pc \in {"resolved", "doneOk"}

Bound(call) == Succeeded(call) /\ ~call.hit

HasTag(logs, tag) == \E i \in 1..Len(logs) : logs[i].tag = tag

PayloadFetches(call) ==
  Cardinality({i \in 1..Len(call.reqs) : call.reqs[i] = DbUrl(call.baseUrl)})

FullBind(call) ==
  /\ Len(call.reqs) >= 2
  /\ call.reqs[1] = WASM_CDNS[1]
  /\ call.reqs[Len(call.reqs)] = DbUrl(call.baseUrl)
  /\ PayloadFetches(call) = 1
  /\ \A t \in {"init", "phase1", "phase2", "phase3", "phase4", "phase5",
               "phase6", "verifyOk", "success"} : HasTag(call.logs, t)

Overlap(c, d) ==
  /\ Started(c) /\ Started(d)
  /\ Ended(c) => Idx("start", d) < Idx("end", c)
  /\ Ended(d) => Idx("start", c) < Idx("end", d)

(* C1: a getDb(addr) that follows a successful getDb(addr), with no switch
   and no completed bind in between, resolves at once to the very instance
   the first call returned and issues no request; the call that did bind
   downloaded the payload exactly once. *)
C1_IdempotentCache ==
  [][\A c \in Calls, a \in Addrs :
       /\ \A p \in Calls :
            (/\ GetDb(c, a)
             /\ ~reloading
             /\ calls[p].pc = "doneOk" /\ calls[p].baseUrl = a
             /\ \A q \in Calls \ {p} :
                  (Bound(calls[q]) /\ Ended(q)) => Idx("end", q) < Idx("end", p))
            => /\ calls'[c].pc = "resolved"
               /\ calls'[c].result = calls[p].result
               /\ calls'[c].reqs = <<>>
       /\ (calls'[c].pc = "resolved" /\ ~calls'[c].hit)
          => PayloadFetches(calls'[c]) = 1]_vars

C1_Witness ==
  \E c, p \in Calls :
    /\ calls[p].pc = "doneOk" /\ ~calls[p].hit
    /\ calls[c].pc = "resolved" /\ calls[c].hit
    /\ calls[c].baseUrl = calls[p].baseUrl
    /\ calls[c].result = calls[p].result
    /\ Idx("end", p) < Idx("start", c)

(* C2: a getDb(addrB) entered while the cache holds the connection that a
   successful getDb(addrA) returned, addrB # addrA, starts a bind instead of
   resolving from the cache; when it resolves it has run every phase, has
   downloaded the payload from addrB, and returns a database mounted by
   itself that no call for another address returned. *)
C2_AddressKeyedInvalidation ==
  [][\A c \in Calls, b \in Addrs :
       /\ (/\ GetDb(c, b)
           /\ ~reloading
           /\ \E p \in Calls : /\ calls[p].pc = "doneOk"
                               /\ calls[p].baseUrl # b
                               /\ calls[p].result = dbInstance)
          => /\ calls'[c].pc = "wasmFetch"
             /\ calls'[c].reqs = <<WASM_CDNS[1]>>
             /\ ~calls'[c].hit
       /\ (calls'[c].pc = "resolved" /\ ~calls'[c].hit)
          => /\ FullBind(calls'[c])
             /\ calls'[c].result = calls'[c].newDb
             /\ calls'[c].result.src = DbUrl(calls'[c].baseUrl)
             /\ \A p \in Calls \ {c} :
                  Succeeded(calls'[p]) => calls'[p].result.id # calls'[c].result.id
     ]_vars

C2_Witness ==
  \E c, p \in Calls :
    /\ calls[p].pc = "doneOk" /\ calls[c].pc = "resolved"
    /\ calls[p].baseUrl # calls[c].baseUrl
    /\ Idx("end", p) < Idx("start", c)
    /\ ~calls[c].hit
    /\ calls[c].result # calls[p].result

(* C3: the database a successful getDb(addr) hands to its caller was
   mounted from the payload requested from addr, under every interleaving. *)
C3_NoStaleConnection ==
  \A c \in Calls :
    Succeeded(calls[c]) =>
      /\ calls[c].result # NoDb
      /\ calls[c].result.src = DbUrl(calls[c].baseUrl)
      /\ calls[c].result.hasTable

C3_Witness ==
  \E c, d \in Calls :
    /\ calls[c].pc = "resolved"
    /\ calls[d].pc = "doneOk"
    /\ Overlap(c, d)
    /\ calls[d].baseUrl # calls[c].baseUrl
    /\ calls[c].result.src = DbUrl(calls[c].baseUrl)

(* C4: dbInstance and currentLoadedUrl are both unset or both set, and when
   set dbInstance is the database mounted from currentLoadedUrl. *)
C4_CachePairConsistent ==
  /\ (dbInstance = NoDb) <=> (currentLoadedUrl = NoUrl)
  /\ dbInstance # NoDb =>
       /\ dbInstance.src = DbUrl(currentLoadedUrl)
       /\ dbInstance.hasTable
       /\ dbInstance.id \in 1..(nextDb - 1)

C4_Witness ==
  /\ dbInstance.id = 2
  /\ \E c, d \in Calls : /\ Bound(calls[c]) /\ Bound(calls[d])
                         /\ calls[c].baseUrl # calls[d].baseUrl
                         /\ calls[d].result = dbInstance

(* C5: when two binds for different addresses overlap and both succeed, the
   cache holds the connection of the one that completed last (as long as no
   later bind has completed), whichever was started first. *)
C5_LastWriterWins ==
  \A c, d \in Calls :
    (/\ c # d
     /\ Bound(calls[c]) /\ Bound(calls[d])
     /\ calls[c].baseUrl # calls[d].baseUrl
     /\ Overlap(c, d)
     /\ Idx("end", c) < Idx("end", d)
     /\ \A q \in Calls \ {c, d} :
          (Bound(calls[q])) => Idx("end", q) < Idx("end", d))
    => /\ dbInstance = calls[d].result
       /\ currentLoadedUrl = calls[d].baseUrl

C5_Witness ==
  \E c, d \in Calls :
    /\ Bound(calls[c]) /\ Bound(calls[d])
    /\ calls[c].baseUrl # calls[d].baseUrl
    /\ Overlap(c, d)
    /\ Idx("start", d) < Idx("start", c)
    /\ Idx("end", c) < Idx("end", d)
    /\ dbInstance = calls[d].result

(* C6: a payload shorter than 100 bytes fails the bind with the too-small
   error before any mount and leaves the cache alone; a payload of 100
   bytes or more reaches the mount phase. *)
DownloadedSize(call) ==
  LET i == CHOOSE j \in 1..Len(call.logs) : call.logs[j].tag = "downloaded"
  IN  call.logs[i].n

C6_SizeGate ==
  [][\A c \in Calls :
       (calls[c].pc = "dbBody" /\ HasTag(calls'[c].logs, "downloaded")) =>
         LET call == calls'[c]
             n == DownloadedSize(call)
         IN  /\ n < 100 =>
                  /\ call.pc = "rejected"
                  /\ call.error.message = "too small to be a valid SQLite database"
                  /\ call.newDb = NoDb
                  /\ ~HasTag(call.logs, "phase5")
                  /\ nextDb' = nextDb
                  /\ dbInstance' = dbInstance
                  /\ currentLoadedUrl' = currentLoadedUrl
             /\ n >= 100 =>
                  /\ HasTag(call.logs, "phase5")
                  /\ call.error.message # "too small to be a valid SQLite database"
                  /\ call.newDb # NoDb \/ call.error.message = "mount failed"
     ]_vars

C6_Witness ==
  \E c \in Calls :
    /\ calls[c].pc = "rejected"
    /\ HasTag(calls[c].logs, "downloaded")
    /\ DownloadedSize(calls[c]) = 99
    /\ calls[c].error.message = "too small to be a valid SQLite database"
    /\ dbInstance # NoDb

(* C7: a payload that mounts but lacks walking_maps fails the bind with the
   schema-verification error, which no failure of the payload fetch
   produces, and the cache is not updated. *)
C7_SchemaGate ==
  [][\A c \in Calls :
       /\ (calls[c].pc = "dbBody" /\ calls'[c].newDb # NoDb
           /\ ~calls'[c].newDb.hasTable) =>
            /\ calls'[c].pc = "rejected"
            /\ calls'[c].error.message =
                 "does not contain the required WalkGIS tables"
            /\ HasTag(calls'[c].logs, "verifyFail")
            /\ dbInstance' = dbInstance
            /\ currentLoadedUrl' = currentLoadedUrl
            /\ dbInstance' # calls'[c].newDb
       /\ (calls'[c].pc = "rejected" /\ ~HasTag(calls'[c].logs, "phase6")) =>
            calls'[c].error.message #
              "does not contain the required WalkGIS tables"
     ]_vars

C7_Witness ==
  \E c \in Calls :
    /\ calls[c].pc = "rejected"
    /\ calls[c].newDb # NoDb /\ ~calls[c].newDb.hasTable
    /\ calls[c].error.message = "does not contain the required WalkGIS tables"
    /\ dbInstance # NoDb

(* C8: the engine endpoints are contacted in list order, endpoint i only
   after all endpoints before it failed, none after one succeeded, and the
   engine-acquisition error arises only when all failed and carries one
   trace entry per endpoint. *)
WasmReqs(call) ==
  Cardinality({i \in 1..Len(call.reqs) :
                 \E j \in 1..Len(WASM_CDNS) : call.reqs[i] = WASM_CDNS[j]})

C8_EngineFallbackOrder ==
  \A c \in Calls :
    LET call == calls[c]
        k == WasmReqs(call)
    IN  /\ k <= Len(WASM_CDNS)
        /\ \A i \in 1..k : call.reqs[i] = WASM_CDNS[i]
        /\ \A j \in 1..Len(call.trace) : call.trace[j].url = WASM_CDNS[j]
        /\ call.pc \in {"wasmFetch", "wasmBody"} =>
             k = call.cdn /\ Len(call.trace) = k - 1
        /\ call.pc \in {"instantiate", "dbFetch", "dbBody", "resolved"}
           /\ ~call.hit => k = Len(call.trace) + 1
        /\ call.pc = "rejected" /\ call.logs # <<>> =>
             IF HasTag(call.logs, "wasmOk")
             THEN /\ k = Len(call.trace) + 1
                  /\ call.error.message #
                       "Failed to load SQL WASM engine from all available CDNs."
             ELSE /\ k = 3
                  /\ call.error.message =
                       "Failed to load SQL WASM engine from all available CDNs."
                  /\ Len(call.error.trace) = 3
                  /\ \A j \in 1..3 : call.error.trace[j].url = WASM_CDNS[j]

C8_Witness ==
  \E c \in Calls :
    /\ calls[c].pc = "rejected"
    /\ calls[c].error.message =
         "Failed to load SQL WASM engine from all available CDNs."
    /\ Len(calls[c].error.trace) = 3
    /\ calls[c].reqs = WASM_CDNS

(* C9 as stated: every rejection of getDb carries the diagnostic log and
   the target address. *)
C9_Original ==
  \A c \in Calls :
    calls[c].pc = "rejected" =>
      /\ calls[c].error.diagnosticLogs # <<>>
      /\ calls[c].error.url = calls[c].baseUrl

(* C9 amended: every failure inside the bind protocol rejects with the
   accumulated log and the target address attached; only the rejection at
   entry under the reloading flag is a bare AbortError; a resolved call has
   no failed phase. *)
FailureTags == {"critical", "factoryFail", "tooSmall", "verifyFail"}

C9_State(cs, flag) ==
  \A c \in Calls :
    /\ cs[c].pc = "rejected" =>
         IF cs[c].logs = <<>>
         THEN cs[c].error = AbortErr /\ flag /\ cs[c].reqs = <<>>
         ELSE /\ cs[c].error.diagnosticLogs = cs[c].logs
              /\ cs[c].logs[Len(cs[c].logs)].tag = "critical"
              /\ cs[c].logs[1] = Entry("init", cs[c].baseUrl, "", 0)
              /\ cs[c].error.url = cs[c].baseUrl
    /\ cs[c].pc = "resolved" =>
         /\ cs[c].error = NoError
         /\ \A t \in FailureTags : ~HasTag(cs[c].logs, t)

C9_BindFailurePropagates ==
  [][/\ C9_State(calls', reloading')
     /\ \A c \in Calls :
          (\/ Instantiate(c, FALSE)
           \/ \E o \in {"http", "net"}, st \in FailStatuses : DbResponse(c, o, st)
           \/ \E n \in PayloadSizes, k \in PayloadKinds, m \in BOOLEAN :
                \/ DbBody(c, FALSE, n, k, m)
                \/ DbBody(c, TRUE, n, k, FALSE)
                \/ (n < 100 /\ DbBody(c, TRUE, n, k, m))
                \/ (k # "walkgis" /\ DbBody(c, TRUE, n, k, m))
           \/ (calls[c].cdn = Len(WASM_CDNS)
               /\ \/ WasmResponse(c, "http") \/ WasmResponse(c, "net")
                  \/ WasmBody(c, FALSE))
           \/ (GetSqlJsFactory(sqljsModule) = "null" /\ WasmBody(c, TRUE)))
          => (calls'[c].pc = "rejected" /\ calls'[c].logs # <<>>)
    ]_vars

C9_Witness ==
  \E c \in Calls :
    /\ calls[c].pc = "rejected"
    /\ calls[c].error.message = "engine instantiation failed"
    /\ calls[c].error.diagnosticLogs = calls[c].logs
    /\ calls[c].error.url = calls[c].baseUrl

(* C10 as stated: the error of a failed payload fetch carries the HTTP
   status and the URL of the database file. *)
CarriesUrl(e, url) ==
  \/ e.url = url
  \/ \E i \in 1..Len(e.diagnosticLogs) : e.diagnosticLogs[i].url = url

PayloadFetchFailed(c) ==
  \/ calls[c].pc = "dbFetch" /\ calls'[c].pc = "rejected"
  \/ /\ calls[c].pc = "dbBody" /\ calls'[c].pc = "rejected"
     /\ ~HasTag(calls'[c].logs, "downloaded")

C10_Original ==
  [][\A c \in Calls :
       PayloadFetchFailed(c) =>
         /\ calls'[c].error.status \in FailStatuses
         /\ CarriesUrl(calls'[c].error, DbUrl(calls'[c].baseUrl))]_vars

(* C10 amended: a failed payload fetch rejects the bind and leaves the
   cache alone; the error carries the database file URL in the phase 4
   entry of its diagnostic log while its url field is the node address; it
   carries the HTTP status exactly when the response had a non-success
   status and the reloading flag was not set.  A network error has no
   status, and under the reloading flag the error is an AbortError. *)
C10_PayloadFetchFailure ==
  [][\A c \in Calls :
       /\ PayloadFetchFailed(c) =>
            LET e == calls'[c].error
            IN  /\ e.url = calls'[c].baseUrl
                /\ \E i \in 1..Len(e.diagnosticLogs) :
                     e.diagnosticLogs[i] =
                       Entry("phase4", DbUrl(calls'[c].baseUrl), "", 0)
                /\ dbInstance' = dbInstance
                /\ currentLoadedUrl' = currentLoadedUrl
                /\ e.status # 0 => (~reloading /\ e.name = "Error")
                /\ (reloading /\ calls[c].pc = "dbFetch") =>
                      (e.name = "AbortError" /\ e.status = 0)
       /\ \A st \in FailStatuses :
            /\ (DbResponse(c, "http", st) /\ ~reloading) =>
                  calls'[c].error.status = st
            /\ DbResponse(c, "net", st) =>
                  (calls'[c].pc = "rejected" /\ calls'[c].error.status = 0)
     ]_vars

C10_Witness ==
  \E c \in Calls :
    /\ calls[c].pc = "rejected"
    /\ calls[c].error.status = 503
    /\ calls[c].error.url = calls[c].baseUrl
    /\ dbInstance # NoDb

(* ------------------------- validateDataSource -------------------------- *)

ProbeSettles(h) == conns[h].pc # "done" /\ conns'[h].pc = "done"

(* C11: a probe that has received no response when its timeout fires
   resolves to true, and a probe whose response carries a non-success status
   before the timeout resolves to false *)
C11_TimeoutLeniency ==
  [][\A h \in Connects :
       /\ (TimeoutElapses(h) /\ conns[h].pc = "fetching")
            => ProbeSettles(h) /\ conns'[h].valid = "true"
       /\ ((\E b \in BOOLEAN : ProbeResponse(h, FALSE, b)) /\ ~conns[h].elapsed)
            => ProbeSettles(h) /\ conns'[h].valid = "false"]_vars

C11_Witness ==
  \E h, g \in Connects :
    /\ conns[h].pc = "done" /\ conns[h].valid = "true" /\ conns[h].timer = "fired"
    /\ conns[g].pc = "done" /\ conns[g].valid = "false"
    /\ conns[g].timer = "cleared" /\ ~conns[g].elapsed

(* C12: validateDataSource never rejects, every outcome is a boolean, and a
   network failure, a non-success status and a failed stream cancellation
   all yield false *)
C12_NeverRejects ==
  [][\A h \in Connects :
       ProbeSettles(h) =>
         /\ conns'[h].valid \in {"true", "false"}
         /\ ( \/ ProbeNetError(h)
              \/ \E b \in BOOLEAN : ProbeResponse(h, FALSE, b)
              \/ ProbeCancelDone(h, FALSE) )
            => conns'[h].valid = "false"]_vars

C12_Witness ==
  \E h, g \in Connects :
    /\ conns[h].pc = "done" /\ conns[h].valid = "false" /\ conns[h].timer = "armed"
    /\ conns[g].pc = "done" /\ conns[g].valid = "false" /\ conns[g].timer = "cleared"

(* C13: once the timeout period of a probe has elapsed the call has
   resolved, whatever the network does *)
C13_BoundedByTimeout ==
  \A h \in Connects : conns[h].elapsed => conns[h].pc = "done"

(* ---------------------------- handleConnect ---------------------------- *)

(* C14: the flag is set, the address persisted and the reload requested only
   in the step in which a validation returned true, for exactly the probed
   address; a validation that returns false leaves storage and the flag
   alone and shows an error naming the probed database URL *)
C14_NoCommitOnFailedValidation ==
  [][/\ ( \/ storage' # storage
          \/ reloading' /\ ~reloading
          \/ reloadPending' = "switch" /\ reloadPending # "switch" )
        => \E h \in Connects :
             /\ ProbeSettles(h)
             /\ conns'[h].valid = "true"
             /\ storage' = conns[h].target
             /\ reloading' /\ reloadPending' = "switch"
     /\ \A h \in Connects :
          (ProbeSettles(h) /\ conns'[h].valid = "false")
            => /\ storage' = storage
               /\ reloading' = reloading
               /\ reloadPending' = reloadPending
               /\ swError'.message # ""
               /\ swError'.url = conns[h].target \o <<"walkgis.db">>]_vars

C14_Witness ==
  \E h, g \in Connects :
    /\ conns[h].pc = "done" /\ conns[h].valid = "false"
    /\ conns[g].pc = "done" /\ conns[g].valid = "true"
    /\ conns[h].target # conns[g].target
    /\ storage = conns[g].target
    /\ reloadPending = "switch"

(* ------------------------- the switch protocol ------------------------- *)

BeforeSwitch ==
  [reloading |-> FALSE, isSwitching |-> FALSE, storage |-> NoUrl,
   reloadPending |-> "none"]

(* C15: setBaseUrl sets the reloading flag and isSwitching before it writes
   storage and writes storage before it requests the reload; at no point of
   the handler, and in no state, is the address persisted or the reload
   requested while the flag is still unset *)
C15_SwitchOrder ==
  /\ \A k \in 0..Len(lastWrites) :
       LET st == AfterWrites(BeforeSwitch, lastWrites, k)
       IN  /\ (st.storage # NoUrl \/ st.reloadPending # "none")
                => st.reloading /\ st.isSwitching
           /\ st.reloadPending # "none" => st.storage # NoUrl
  /\ reloadPending = "switch" => reloading /\ isSwitching /\ storage # NoUrl

C15_Witness ==
  /\ Len(lastWrites) = 4
  /\ reloading /\ isSwitching
  /\ storage = <<"https://", "example.org", "/">>
  /\ reloadPending = "switch"

(* C18: no step taken while the reloading flag is set moves a component to
   an error state *)
C18_FailuresDiscardedWhileReloading ==
  [][reloading => (swError' = swError \/ swError' = NoSwError)]_vars

(* -------------------------- fetchMarketRegistry ------------------------ *)

(* C20: a body that is not an object, or whose sources field is missing or
   is not a list, makes fetchMarketRegistry return the empty list *)
C20_RegistryDegrades ==
  [][\A b \in RegistryBodies :
       (RegistryJson(b) /\ (b.t # "object" \/ b.sources.t # "list"))
         => reg'.result = EmptyList]_vars

(* ------------------------- the persisted address ----------------------- *)

SwitchProtocolStep ==
  /\ reloading' /\ isSwitching' /\ reloadPending' = "switch"
  /\ \E i \in 1..Len(lastWrites') :
       lastWrites'[i] = [op |-> "setItem", url |-> storage']

(* C16 as stated: the stored value is created, changed or removed by the
   switch protocol only *)
C16_Original == [][storage' # storage => SwitchProtocolStep]_vars

(* C16: the stored value is set by the switch protocol only; the one other
   operation that touches it is "Reset to Default" of the connection-error
   view, which removes it *)
C16_SwitchOrResetOnly ==
  [][/\ storage' # storage
        => \/ SwitchProtocolStep
           \/ Rendered = "error" /\ storage' = NoUrl /\ reloadPending' = "reset"
     /\ (reloadPending' = "reset" /\ reloadPending # "reset") => storage' = NoUrl
     /\ storage' \notin {storage, NoUrl} => SwitchProtocolStep]_vars

C16_Witness ==
  /\ reloadPending = "reset"
  /\ storage = NoUrl
  /\ ctxBaseUrl = OtherSource
  /\ dbStatus = "error"

(* C17: after start-up the active address is the persisted one if there is
   one and the default otherwise, and while storage holds an address other
   than the default no getDb call for the default is issued at start-up *)
C17_ColdStartUsesPersisted ==
  [][/\ (boot # "run" /\ boot' = "run")
        => ctxBaseUrl' = IF storage # NoUrl THEN storage ELSE DEFAULT_SOURCE
     /\ \A c \in AppCalls :
          ( /\ boot # "run"
            /\ calls[c].pc = "idle" /\ calls'[c].pc # "idle"
            /\ calls'[c].baseUrl = DEFAULT_SOURCE )
          => storage \in {NoUrl, DEFAULT_SOURCE}]_vars

(* C19: if every issued request settles, dbStatus leaves 'loading' for
   'ready' or 'error', MapDetail's status leaves 'loading', and a set
   validatingId is cleared or followed by a reload *)
C19_NoSpinningForever ==
  /\ (dbStatus = "loading") ~> (dbStatus \in {"ready", "error"})
  /\ (mdStatus = "loading") ~> (mdStatus # "loading")
  /\ (validatingId # "null") ~> (validatingId = "null" \/ reloadPending # "none")

C19_Witness ==
  /\ dbStatus = "ready"
  /\ mdStatus = "ready"
  /\ conns[1].pc = "done" /\ validatingId = "null"

(* --------------------------- generateKml ------------------------------- *)

IsPoint(g) == ~g.null /\ PointMatch(g.text) # <<>>

RECURSIVE PointFeatures(_)
PointFeatures(features) ==
  IF features = <<>> THEN <<>>
  ELSE (IF IsPoint(Head(features).geometry_wkt) THEN <<Head(features)>> ELSE <<>>)
       \o PointFeatures(Tail(features))

(* C28: generateKml returns without throwing, with exactly one Placemark, in
   input order, for each feature whose geometry matches the POINT pattern,
   whatever the geometry of the other features (other types, malformed,
   missing) *)
C28_KmlPlacemarks ==
  kmlOut.pc # "none" =>
    /\ kmlOut.pc = "returned"
    /\ LET pf == PointFeatures(kmlIn)
       IN  /\ Len(kmlOut.placemarks) = Len(pf)
           /\ \A i \in 1..Len(pf) : kmlOut.placemarks[i].name = pf[i].name

(* ----------------------- resolveMapImagePath --------------------------- *)

Schemes == {"https://other/"}

IsAbsolute(path) == path # <<>> /\ path[1] \in Schemes

(* the last path component, every directory component stripped *)
LastComponent(path) ==
  LET seps == {i \in 1..Len(path) : path[i] \in Separators}
      ends == {i \in 1..Len(path) : path[i] \notin Separators}
      last == CHOOSE i \in ends : \A j \in ends : j <= i
      from == CHOOSE i \in 1..last :
                /\ \A j \in i..last : j \notin seps
                /\ (i = 1 \/ (i - 1) \in seps)
  IN  IF ends = {} THEN <<>> ELSE SubSeq(path, from, last)

(* C29: an absolute address is returned unchanged, empty input gives null,
   and every other path gives base + 'assets/images/' + its last component *)
C29_ImagePath ==
  imgOut.pc = "returned" =>
    IF imgIn.path = <<>> THEN imgOut.result = NullPath
    ELSE IF IsAbsolute(imgIn.path) THEN imgOut.result = PathOf(imgIn.path)
    ELSE imgOut.result =
           PathOf(imgIn.base \o <<"assets/images/">> \o LastComponent(imgIn.path))

(* ------------------------------ the facade ---------------------------- *)

Done(op) == op.pc \in {"resolved", "rejected"}

(* the calls of getDb that a step starts *)
StartedCalls == {c \in DOMAIN calls : calls[c].pc = "idle" /\ calls'[c].pc # "idle"}

(* C21: searchFeatures with a term of fewer than 2 characters returns []
   at once, without calling getDb and without preparing a statement; with a
   longer term it calls getDb once and, when the database arrives, prepares
   exactly one statement. *)
C21_SearchThreshold ==
  [][\A o \in Ops :
       /\ (ops[o].pc = "idle" /\ ops'[o].pc # "idle" /\ ops'[o].kind = "searchFeatures")
            => IF Len(ops'[o].term) < 2
               THEN /\ ops'[o].pc = "resolved"
                    /\ ops'[o].result = <<>>
                    /\ ops'[o].prepared = 0
                    /\ StartedCalls = {}
                    /\ calls' = calls
               ELSE /\ ops'[o].pc = "awaiting"
                    /\ Cardinality(StartedCalls) = 1
                    /\ ops'[o].call \in StartedCalls
       /\ (ops[o].pc = "awaiting" /\ ops'[o].pc # "awaiting" /\ ops[o].kind = "searchFeatures")
            => ops'[o].prepared = IF calls[ops[o].call].pc = "resolved" THEN 1 ELSE 0
       /\ Done(ops[o]) => ops'[o] = ops[o]]_vars

C21_Witness ==
  \E o, p \in Ops :
    /\ ops[o].kind = "searchFeatures" /\ Len(ops[o].term) = 1
    /\ ops[o].pc = "resolved" /\ ops[o].call = 0
    /\ ops[p].kind = "searchFeatures" /\ Len(ops[p].term) >= 2
    /\ ops[p].pc = "resolved" /\ ops[p].prepared = 1 /\ ops[p].result # <<>>

(* getDb rejected for the operation *)
BindFailed(op) == op.call # 0 /\ calls[op.call].pc = "doneErr"

(* getDb rejected, or a statement operation threw *)
Failed(op) == BindFailed(op) \/ op.fail # "none"

(* C22: queryMaps never rejects; when getDb rejects or the query throws,
   it resolves to the empty list. *)
C22_QueryMapsNeverRejects ==
  \A o \in Ops :
    ops[o].kind = "queryMaps" =>
      /\ ops[o].pc # "rejected"
      /\ (Done(ops[o]) /\ Failed(ops[o])) => ops[o].result = <<>>

C22_Witness ==
  /\ tables.maps # <<>>
  /\ \E o, p \in Ops :
       /\ ops[o].kind = "queryMaps" /\ ops[o].pc = "resolved" /\ BindFailed(ops[o])
       /\ ops[p].kind = "queryMaps" /\ ops[p].pc = "resolved" /\ ops[p].fail = "exec"

Propagating == {"queryFeaturesByMap", "queryAllFeatures"}

(* C23: queryFeaturesByMap and queryAllFeatures reject with the error of
   getDb when getDb rejects, and with the error thrown by the statement
   operation when one throws; they resolve only when nothing failed. *)
C23_FeatureQueriesPropagate ==
  [][\A o \in Ops :
       (ops[o].pc = "awaiting" /\ Done(ops'[o]) /\ ops[o].kind \in Propagating) =>
         LET call == calls[ops[o].call]
         IN  /\ call.pc = "rejected" =>
                   ops'[o].pc = "rejected" /\ ops'[o].error = call.error
             /\ ops'[o].fail # "none" =>
                   ops'[o].pc = "rejected" /\ ops'[o].error.message = ops'[o].fail
             /\ ops'[o].pc = "resolved" =>
                   call.pc = "resolved" /\ ops'[o].fail = "none"]_vars

C23_Witness ==
  \E o, p \in Ops :
    /\ ops[o].kind = "queryFeaturesByMap" /\ ops[o].pc = "rejected"
    /\ BindFailed(ops[o]) /\ ops[o].error.message = "Failed to fetch"
    /\ ops[p].kind = "queryAllFeatures" /\ ops[p].pc = "rejected"
    /\ ops[p].fail = "step"

(* C24: searchFeatures never rejects; a rejected getDb, the AbortError of a
   pending reload included, and a throwing statement operation both end in
   the empty list. *)
C24_SearchNeverRejects ==
  \A o \in Ops :
    ops[o].kind = "searchFeatures" =>
      /\ ops[o].pc # "rejected"
      /\ ops[o].error = NoError
      /\ (Done(ops[o]) /\ Failed(ops[o])) =>
            ops[o].pc = "resolved" /\ ops[o].result = <<>>

C24_Witness ==
  \E o, p \in Ops :
    /\ ops[o].kind = "searchFeatures" /\ ops[o].pc = "resolved"
    /\ BindFailed(ops[o]) /\ ops[o].caught.name = "AbortError"
    /\ ops[p].kind = "searchFeatures" /\ ops[p].pc = "resolved"
    /\ ops[p].fail = "bind" /\ ops[p].result = <<>>
    /\ SearchRows(tables, ops[p].term) # <<>>

(* C25: when an operation has returned or thrown, every statement handle
   it opened has been released. *)
C25_HandlesReleased ==
  \A o \in Ops : Done(ops[o]) => ops[o].released = ops[o].opened

(* the relation rows of a map, by their position in the table *)
RelationsOf(mapId) ==
  {i \in DOMAIN tables.relations : tables.relations[i].map_id = mapId}

FeatureOf(id) ==
  CHOOSE i \in DOMAIN tables.features : tables.features[i].feature_id = id

(* result lists one feature per relation row of the map, the rows taken in
   an order of non-decreasing display_order *)
JoinedInOrder(result, mapId) ==
  LET rels == RelationsOf(mapId)
      n == Cardinality(rels)
  IN  /\ Len(result) = n
      /\ \E pick \in [1..n -> rels] :
            /\ \A i, j \in 1..n : i # j => pick[i] # pick[j]
            /\ \A i, j \in 1..n :
                  i < j => tables.relations[pick[i]].display_order
                             <= tables.relations[pick[j]].display_order
            /\ \A i \in 1..n :
                  result[i] = tables.features[FeatureOf(tables.relations[pick[i]].feature_id)]

(* C26: queryFeaturesByMap returns one feature per relation row of mapId
   and none for other maps, in ascending display_order. *)
C26_FeaturesByMap ==
  \A o \in Ops :
    (ops[o].kind = "queryFeaturesByMap" /\ ops[o].pc = "resolved") =>
      JoinedInOrder(ops[o].result, ops[o].id)

C26_Witness ==
  \E o, p \in Ops :
    /\ ops[o].kind = "queryFeaturesByMap" /\ ops[o].pc = "resolved"
    /\ Len(ops[o].result) = 4
    /\ ops[o].result[1] = ops[o].result[4]
    /\ ops[o].result # FeaturesByMapRowsUnordered(tables, ops[o].id)
    /\ Cardinality(RelationsOf(ops[o].id)) < Len(tables.relations)
    /\ ops[p].kind = "queryFeaturesByMap" /\ ops[p].pc = "resolved"
    /\ ops[p].result = <<>>

(* name contains term as a substring, letters compared without case *)
ContainsTerm(name, term) ==
  \E i \in 0..(Len(name) - Len(term)) :
    \A k \in 1..Len(term) : Lower(name[i + k]) = Lower(term[k])

MatchingFeatures(term) ==
  {i \in DOMAIN tables.features : ContainsTerm(tables.features[i].name, term)}

(* C27: searchFeatures with a term of at least 2 characters returns at most
   10 rows, each a feature whose name contains the term as a substring
   without regard to case, and fewer than 10 only when fewer features
   match. *)
C27_SearchResults ==
  \A o \in Ops :
    (ops[o].kind = "searchFeatures" /\ ops[o].pc = "resolved"
       /\ Len(ops[o].term) >= 2 /\ ~Failed(ops[o])) =>
      /\ Len(ops[o].result) <= 10
      /\ \A i \in DOMAIN ops[o].result :
            /\ \E j \in DOMAIN tables.features : tables.features[j] = ops[o].result[i]
            /\ ContainsTerm(ops[o].result[i].name, ops[o].term)
      /\ Len(ops[o].result) < 10 =>
            Len(ops[o].result) = Cardinality(MatchingFeatures(ops[o].term))

(* ----------------------- order of the bind phases ---------------------- *)

TagPos(logs, tag) == CHOOSE i \in 1..Len(logs) : logs[i].tag = tag

Before(logs, a, b) ==
  HasTag(logs, b) => HasTag(logs, a) /\ TagPos(logs, a) < TagPos(logs, b)

PhasesInOrder(call) ==
  /\ (\E i \in 1..Len(call.reqs) : call.reqs[i] = DbUrl(call.baseUrl))
       => /\ HasTag(call.logs, "engineOk")
          /\ call.reqs[Len(call.reqs)] = DbUrl(call.baseUrl)
          /\ PayloadFetches(call) = 1
  /\ Before(call.logs, "engineOk", "phase4")
  /\ Before(call.logs, "phase4", "downloaded")
  /\ Before(call.logs, "downloaded", "phase5")
  /\ HasTag(call.logs, "phase5")
       => /\ call.logs[TagPos(call.logs, "downloaded")].n >= MinDbSize
          /\ ~HasTag(call.logs, "tooSmall")
  /\ Before(call.logs, "phase5", "phase6")
  /\ Before(call.logs, "phase6", "verifyOk")
  /\ Before(call.logs, "verifyOk", "success")

(* C30: the payload is requested only after the engine was acquired and
   instantiated, the mount happens only after the size check passed, the
   schema probe only after the mount, and the cache is assigned only by a
   call whose schema probe passed *)
C30_PhasesInOrder ==
  [][/\ \A c \in Calls : calls'[c].pc \notin {"doneOk", "doneErr"}
                            => PhasesInOrder(calls'[c])
     /\ (dbInstance' # dbInstance \/ currentLoadedUrl' # currentLoadedUrl)
         => \E c \in Calls :
              /\ calls[c].pc = "dbBody" /\ calls'[c].pc = "resolved"
              /\ HasTag(calls'[c].logs, "verifyOk")
              /\ calls'[c].newDb.hasTable
              /\ dbInstance' = calls'[c].newDb
              /\ currentLoadedUrl' = calls'[c].baseUrl]_vars

C30_Witness ==
  \E c \in Calls :
    /\ calls[c].pc = "resolved" /\ ~calls[c].hit
    /\ HasTag(calls[c].logs, "success")
    /\ Len(calls[c].reqs) >= 2
    /\ dbInstance = calls[c].newDb
    /\ currentLoadedUrl = calls[c].baseUrl

(* ------------------------ the diagnostic log -------------------------- *)

PhaseTags == <<"phase1", "phase2", "phase3", "phase4", "phase5", "phase6">>

(* the phase in which the error of a failed bind was thrown, read off the
   error itself *)
FailPhase(err) ==
  IF err.message = "Failed to load SQL WASM engine from all available CDNs." THEN 1
  ELSE IF err.message = "Could not find SQL.js init function in module." THEN 2
  ELSE IF err.message = "engine instantiation failed" THEN 3
  ELSE IF err.message = "mount failed" THEN 5
  ELSE IF err.message = "does not contain the required WalkGIS tables" THEN 6
  ELSE 4

TagCount(logs, tag) == Cardinality({i \in 1..Len(logs) : logs[i].tag = tag})

(* the bind failed inside a phase, not at the entry test of the flag *)
FailedInPhase(call) == call.pc = "rejected" /\ call.logs # <<>>

(* C31: the log attached to the error of a bind that failed in phase k holds
   the start entries of phases 1..k, once each and in order, no start entry
   of a later phase, and the critical-failure entry as its last entry *)
C31_LogNamesFailingPhase ==
  \A c \in DOMAIN calls :
    FailedInPhase(calls[c]) =>
      LET L == calls[c].error.diagnosticLogs
          k == FailPhase(calls[c].error)
      IN  /\ L # <<>>
          /\ \A i \in 1..6 : TagCount(L, PhaseTags[i]) = IF i <= k THEN 1 ELSE 0
          /\ \A i \in 1..(k - 1) : TagPos(L, PhaseTags[i]) < TagPos(L, PhaseTags[i + 1])
          /\ L[Len(L)].tag = "critical"
          /\ TagCount(L, "critical") = 1
          /\ ~HasTag(L, "success")

C31_Witness ==
  \E c \in DOMAIN calls :
    /\ FailedInPhase(calls[c])
    /\ FailPhase(calls[c].error) = 4
    /\ HasTag(calls[c].error.diagnosticLogs, "tooSmall")
    /\ Len(calls[c].error.diagnosticLogs) > 6

(* ------------------------ a failed bind and the cache ------------------ *)

InFlight(call) == call.pc \notin {"idle", "resolved", "rejected", "doneOk", "doneErr"}

(* C32: the step in which a bind fails leaves dbInstance and
   currentLoadedUrl as they were, and a getDb for the cached address entered
   afterwards resolves at once to the cached connection without a request *)
C32_FailedBindKeepsCache ==
  [][\A c \in DOMAIN calls :
       /\ (InFlight(calls[c]) /\ calls'[c].pc = "rejected")
            => dbInstance' = dbInstance /\ currentLoadedUrl' = currentLoadedUrl
       /\ (calls[c].pc = "idle" /\ calls'[c].pc # "idle"
              /\ dbInstance # NoDb /\ currentLoadedUrl = calls'[c].baseUrl
              /\ ~reloading)
            => /\ calls'[c].pc = "resolved"
               /\ calls'[c].result = dbInstance
               /\ calls'[c].reqs = <<>>
               /\ dbInstance' = dbInstance]_vars

C32_Witness ==
  \E a, b, c \in DOMAIN calls :
    /\ calls[a].pc = "doneOk" /\ ~calls[a].hit
    /\ calls[b].pc = "doneErr" /\ calls[b].baseUrl # calls[a].baseUrl
    /\ calls[c].pc = "resolved" /\ calls[c].hit
    /\ Idx("end", a) < Idx("start", b)
    /\ Idx("end", b) < Idx("start", c)
    /\ calls[c].baseUrl = calls[a].baseUrl
    /\ calls[c].result = calls[a].result
    /\ calls[c].reqs = <<>>
    /\ currentLoadedUrl = calls[a].baseUrl
    /\ dbInstance = calls[a].result

(* ------------------------- the path separator -------------------------- *)

(* the address ends with the character '/' *)
Terminated(u) == u # <<>> /\ u[Len(u)] \in {"/", "https://", "http://"}

WithSeparator(u) == IF Terminated(u) THEN u ELSE Append(u, "/")

Persisted(ws) == {ws[i].url : i \in {j \in 1..Len(ws) : ws[j].op = "setItem"}}

(* C33: the active address, the stored address and the address of every
   bind end with '/', every payload request is that address followed by the
   file name, and setBaseUrl persists its input with a '/' appended exactly
   when the input lacks one *)
C33_AddressesTerminated ==
  /\ Terminated(ctxBaseUrl)
  /\ storage # NoUrl => Terminated(storage)
  /\ \A c \in DOMAIN calls :
       calls[c].pc # "idle" =>
         /\ Terminated(calls[c].baseUrl)
         /\ \A i \in 1..Len(calls[c].reqs) :
               calls[c].reqs[i][Len(calls[c].reqs[i])] = "walkgis.db"
                 => calls[c].reqs[i] = Append(calls[c].baseUrl, "walkgis.db")
  /\ \A u \in SwitchInputs \cup {ConnectTarget(i) : i \in AppUrlInputs} :
       Persisted(SwitchWrites(u)) = {WithSeparator(u)}
  /\ Persisted(lastWrites) \subseteq {WithSeparator(ConnectTarget(i)) : i \in AppUrlInputs}

C33_Witness ==
  /\ reloads = 1
  /\ lastWrites = <<>>
  /\ storage = <<"https://", "example.org", "/">>
  /\ ctxBaseUrl = storage
  /\ \E c \in DOMAIN calls :
       /\ calls[c].pc = "dbBody"
       /\ calls[c].reqs[Len(calls[c].reqs)] = <<"https://", "example.org", "/", "walkgis.db">>

(* ------------------------- the active address -------------------------- *)

(* C34: within one page lifetime baseUrl changes only in the provider's
   mount effect, from the default to the stored address, and the step in
   which setBaseUrl sets the flag, persists and requests the reload leaves
   baseUrl as it was *)
C34_ActiveAddressFixed ==
  [][/\ (ctxBaseUrl' # ctxBaseUrl /\ reloads' = reloads)
          => /\ boot = "child" /\ boot' = "run"
             /\ ctxBaseUrl = DEFAULT_SOURCE
             /\ storage # NoUrl
             /\ ctxBaseUrl' = storage
     /\ (reloading' /\ ~reloading)
          => /\ ctxBaseUrl' = ctxBaseUrl
             /\ isSwitching'
             /\ storage' # NoUrl
             /\ reloadPending' # "none"
     /\ boot = "run" /\ reloads' = reloads => ctxBaseUrl' = ctxBaseUrl]_vars

C34_Witness ==
  /\ boot = "run"
  /\ reloading
  /\ storage \notin {NoUrl, ctxBaseUrl}
  /\ ctxBaseUrl # DEFAULT_SOURCE
  /\ reloadPending # "none"

(* --------------------------- the reloading flag ------------------------ *)

(* C35: the flag, once set, stays set, and a getDb entered while it is set
   is rejected in the same step with an AbortError, issues no request and
   leaves the cache as it was, cached connection or not *)
C35_AbortWhileReloading ==
  [][/\ reloading => reloading'
     /\ \A c \in DOMAIN calls :
          (reloading /\ calls[c].pc = "idle" /\ calls'[c].pc # "idle")
            => /\ calls'[c].pc = "rejected"
               /\ calls'[c].error.name = "AbortError"
               /\ calls'[c].reqs = <<>>
               /\ calls'[c].result = NoDb
               /\ dbInstance' = dbInstance
               /\ currentLoadedUrl' = currentLoadedUrl]_vars

C35_Witness ==
  /\ reloading
  /\ dbInstance # NoDb
  /\ \E c \in DOMAIN calls :
       /\ calls[c].pc = "rejected"
       /\ calls[c].baseUrl = currentLoadedUrl
       /\ calls[c].error.name = "AbortError"
       /\ calls[c].reqs = <<>>

(* ----------------------- the status and the cache ----------------------- *)

(* C36: while dbStatus is 'ready' the cache is keyed by the active address *)
C36_ReadyMeansCacheForActive ==
  dbStatus = "ready" => currentLoadedUrl = ctxBaseUrl

(* C37: the settlement of a bind that was started for an address that is
   no longer the active one changes neither dbStatus nor errorDetails *)
C37_StaleBindIgnored ==
  [][\A c \in DOMAIN calls :
       (Settled(calls[c]) /\ calls'[c].pc \in {"doneOk", "doneErr"}
          /\ calls[c].baseUrl # ctxBaseUrl)
         => dbStatus' = dbStatus /\ errorDetails' = errorDetails]_vars

C37_Witness ==
  \E c \in DOMAIN calls :
    /\ calls[c].pc = "doneErr"
    /\ calls[c].baseUrl # ctxBaseUrl
    /\ ~reloading
    /\ dbStatus = "ready"
    /\ errorDetails = NoDetails

(* ----------------------- overlapping binds, one address ---------------- *)

(* call c bound the address of d and completed while d was under way *)
CompletedDuring(c, d) ==
  /\ c # d
  /\ calls[c].pc = "doneOk" /\ ~calls[c].hit
  /\ calls[c].baseUrl = calls[d].baseUrl
  /\ Idx("start", d) < Idx("end", c)

(* C38: a bind that completes runs the whole protocol with one payload
   download and returns the database it mounted, also when another bind of
   the same address overlapped it and completed first; the cache then holds
   the database of the one that completed last *)
C38_OverlappingBindsSameAddress ==
  [][\A d \in DOMAIN calls :
       (InFlight(calls[d]) /\ calls'[d].pc = "resolved") =>
         /\ FullBind(calls'[d])
         /\ calls'[d].result = calls'[d].newDb
         /\ calls'[d].newDb.src = DbUrl(calls'[d].baseUrl)
         /\ dbInstance' = calls'[d].newDb
         /\ currentLoadedUrl' = calls'[d].baseUrl
         /\ \A c \in DOMAIN calls :
              CompletedDuring(c, d) => calls'[d].result # calls[c].result]_vars

C38_Witness ==
  \E c, d \in DOMAIN calls :
    /\ calls[d].pc = "resolved" /\ ~calls[d].hit
    /\ CompletedDuring(c, d)
    /\ Idx("start", c) < Idx("start", d)
    /\ FullBind(calls[d])
    /\ calls[d].result # calls[c].result
    /\ dbInstance = calls[d].result

(* ------------------------ one switch per lifetime ---------------------- *)

(* C39: once setBaseUrl has run, no later step of the same page lifetime
   runs its writes again or replaces the stored address *)
C39_OneSwitchPerLifetime ==
  [][(reloading /\ reloading')
       => /\ storage' = storage
          /\ lastWrites' = lastWrites
          /\ reloadPending' = reloadPending]_vars

====
